---- MODULE Spec2Model ----
(***************************************************************************)
(* Scoring engine of wot-blitz-api: the weight configuration, the six      *)
(* per-dimension scorers, the overall and relative scores, and the bulk    *)
(* recalculation sweep of ScoringService, with the ScoringController       *)
(* handlers that drive them.                                               *)
(*                                                                         *)
(* JavaScript numbers are modelled as exact extended rationals: a pair     *)
(* <<n, d>> with d > 0 is the number n/d in lowest terms, <<0, 0>> is NaN, *)
(* <<1, 0>> is +Infinity and <<-1, 0>> is -Infinity.  Binary rounding of   *)
(* IEEE doubles is not modelled (the claims speak of "within tolerance");  *)
(* NaN and the infinities follow the IEEE rules the code runs under.       *)
(***************************************************************************)
EXTENDS Integers, Sequences, FiniteSets, TLC

----------------------------------------------------------------------------
(* Numbers *)

Abs(x) == IF x < 0 THEN -x ELSE x

Sign(x) == IF x < 0 THEN -1 ELSE IF x = 0 THEN 0 ELSE 1

RECURSIVE GCD(_, _)
GCD(a, b) == IF b = 0 THEN a ELSE GCD(b, a % b)

\* n/d in lowest terms with a positive denominator; n/0 is NaN or +-Infinity.
Norm(n, d) ==
  IF d = 0 THEN <<Sign(n), 0>>
  ELSE LET g == GCD(Abs(n), Abs(d))
       IN  <<(Sign(d) * n) \div g, Abs(d) \div g>>

Q(n, d) == Norm(n, d)

NaN == <<0, 0>>

Infinity == <<1, 0>>

Zero == <<0, 1>>

IsNaN(x) == x = NaN

IsFinite(x) == x[2] # 0

IsInf(x) == x[2] = 0 /\ x[1] # 0

SignOf(x) == Sign(x[1])

\* a + b
RAdd(a, b) ==
  IF IsNaN(a) \/ IsNaN(b) THEN NaN
  ELSE IF IsInf(a) /\ IsInf(b) THEN (IF a = b THEN a ELSE NaN)
  ELSE IF IsInf(a) THEN a
  ELSE IF IsInf(b) THEN b
  ELSE LET g == GCD(a[2], b[2])
       IN  Norm(a[1] * (b[2] \div g) + b[1] * (a[2] \div g), (a[2] \div g) * b[2])

\* a * b
RMul(a, b) ==
  IF IsNaN(a) \/ IsNaN(b) THEN NaN
  ELSE IF IsInf(a) \/ IsInf(b) THEN <<SignOf(a) * SignOf(b), 0>>
  ELSE LET g1 == GCD(Abs(a[1]), b[2])
           g2 == GCD(Abs(b[1]), a[2])
       IN  Norm((a[1] \div g1) * (b[1] \div g2), (a[2] \div g2) * (b[2] \div g1))

\* a / b: x/0 is +-Infinity for x # 0 and NaN for x = 0; Infinity/Infinity is NaN.
RDiv(a, b) ==
  IF IsNaN(a) \/ IsNaN(b) THEN NaN
  ELSE IF IsInf(a) /\ IsInf(b) THEN NaN
  ELSE IF IsInf(a) THEN <<SignOf(a) * (IF SignOf(b) < 0 THEN -1 ELSE 1), 0>>
  ELSE IF IsInf(b) THEN Zero
  ELSE IF b[1] = 0 THEN <<SignOf(a), 0>>
  ELSE LET g1 == GCD(Abs(a[1]), Abs(b[1]))
           g2 == GCD(a[2], b[2])
       IN  Norm((a[1] \div g1) * (b[2] \div g2) * Sign(b[1]),
                (a[2] \div g2) * (Abs(b[1]) \div g1))

\* a < b (false when either is NaN)
RLt(a, b) ==
  /\ ~IsNaN(a)
  /\ ~IsNaN(b)
  /\ IF IsInf(a) \/ IsInf(b)
     THEN (IF IsInf(a) /\ IsInf(b) THEN a[1] < b[1]
           ELSE IF IsInf(a) THEN a[1] < 0
           ELSE b[1] > 0)
     ELSE a[1] * b[2] < b[1] * a[2]

\* a <= b (false when either is NaN)
RLe(a, b) == ~IsNaN(a) /\ ~IsNaN(b) /\ ~RLt(b, a)

\* Math.min(a, b): NaN when either argument is NaN
MathMin(a, b) ==
  IF IsNaN(a) \/ IsNaN(b) THEN NaN ELSE IF RLt(b, a) THEN b ELSE a

\* Math.max(a, b): NaN when either argument is NaN
MathMax(a, b) ==
  IF IsNaN(a) \/ IsNaN(b) THEN NaN ELSE IF RLt(a, b) THEN b ELSE a

\* Math.round(x): floor(x + 0.5); NaN and the infinities are returned unchanged
MathRound(x) ==
  IF ~IsFinite(x) THEN x
  ELSE LET q == x[1] \div x[2]
           r == x[1] % x[2]
       IN  <<IF r >= x[2] - r THEN q + 1 ELSE q, 1>>

\* JavaScript truthiness of a number: 0 and NaN are falsy
Truthy(x) == ~IsNaN(x) /\ x # Zero

\* a finite number in [0, 100]
InScoreRange(x) == IsFinite(x) /\ RLe(Zero, x) /\ RLe(x, Q(100, 1))

----------------------------------------------------------------------------
(* State *)

VARIABLES
  defaultWeights,  \* ScoringService.defaultWeights: the process-wide WeightSet
  req,             \* the "weights" value of the PUT /weights body being handled
  res,             \* the response the PUT /weights handler sent for req
  tanks,           \* the tanks table: id -> row
  cache,           \* the cache: key -> value, for the keys that hold a value
  proc             \* the scoring request handlers: their position and locals

vars == <<defaultWeights, req, res, tanks, cache, proc>>

----------------------------------------------------------------------------
(* Weight configuration: ScoringService.defaultWeights, updateScoringWeights *)
(* and the PUT /api/scoring/weights handler                                  *)

None == "none"

validKeys == {"damage", "winRate", "survival", "armor", "mobility", "penetration"}

\* ScoringService.defaultWeights as constructed
InitialDefaultWeights ==
  [k \in validKeys |->
     CASE k = "damage"      -> Q(25, 100)
       [] k = "winRate"     -> Q(20, 100)
       [] k = "survival"    -> Q(15, 100)
       [] k = "armor"       -> Q(15, 100)
       [] k = "mobility"    -> Q(15, 100)
       [] k = "penetration" -> Q(10, 100)]

\* A JSON value that is not a number
NotANumber == <<"string">>

\* typeof v === 'number'
IsNumber(v) == Len(v) = 2

RECURSIVE SumOver(_, _)
\* Object.values(w).reduce((sum, weight) => sum + weight, 0)
SumOver(w, keys) ==
  IF keys = {} THEN Zero
  ELSE LET k == CHOOSE x \in keys : TRUE
       IN  RAdd(w[k], SumOver(w, keys \ {k}))

WeightTotal(w) == SumOver(w, DOMAIN w)

\* The keys of a request object, in insertion order
RequestKeys(entries) == {entries[i][1] : i \in 1..Len(entries)}

\* The value a request object holds for key k
RequestValue(entries, k) ==
  LET i == CHOOSE j \in 1..Len(entries) : entries[j][1] = k
  IN  entries[i][2]

\* { ...current, ...newWeights }
SpreadMerge(current, entries) ==
  [k \in DOMAIN current \cup RequestKeys(entries) |->
     IF k \in RequestKeys(entries) THEN RequestValue(entries, k) ELSE current[k]]

\* A faulty variant: the merged weights are left as they are, not renormalised
updateScoringWeightsUnnormalised(current, entries) == SpreadMerge(current, entries)

\* A faulty variant: only the weights named by the request are divided
updateScoringWeightsTouchedOnly(current, entries) ==
  LET merged == SpreadMerge(current, entries)
      total  == WeightTotal(merged)
  IN  [k \in DOMAIN merged |->
         IF k \in RequestKeys(entries) THEN RDiv(merged[k], total) ELSE merged[k]]

\* ScoringService.updateScoringWeights: merge, then divide every weight by the
\* total unless the total is exactly 1
updateScoringWeights(current, entries) ==
  LET merged == SpreadMerge(current, entries)
      total  == WeightTotal(merged)
  IN  IF total # Q(1, 1)
      THEN [k \in DOMAIN merged |-> RDiv(merged[k], total)]
      ELSE merged

\* A faulty variant: the loop checks the values only, never the key
RECURSIVE FirstRejectedValuesOnly(_, _)
FirstRejectedValuesOnly(entries, i) ==
  IF i > Len(entries) THEN 0
  ELSE IF \/ ~IsNumber(entries[i][2])
          \/ RLt(entries[i][2], Zero)
          \/ RLt(Q(1, 1), entries[i][2]) THEN i
  ELSE FirstRejectedValuesOnly(entries, i + 1)

\* The loop of ScoringController.updateWeights over Object.keys(weights): the
\* index of the first entry it rejects, 0 when it rejects none
RECURSIVE FirstRejected(_, _)
FirstRejected(entries, i) ==
  IF i > Len(entries) THEN 0
  ELSE IF entries[i][1] \notin validKeys THEN i
  ELSE IF \/ ~IsNumber(entries[i][2])
          \/ RLt(entries[i][2], Zero)
          \/ RLt(Q(1, 1), entries[i][2]) THEN i
  ELSE FirstRejected(entries, i + 1)

NoResponse == [status |-> 0, error |-> None, key |-> None]

\* The response of ScoringController.updateWeights to a body: body.isObject is
\* false when "weights" is missing or not an object, body.entries are the
\* entries of the object in insertion order
updateWeightsResponse(body) ==
  IF ~body.isObject
  THEN [status |-> 400, error |-> "InvalidWeights", key |-> None]
  ELSE LET i == FirstRejected(body.entries, 1)
       IN  IF i = 0
           THEN [status |-> 200, error |-> None, key |-> None]
           ELSE IF body.entries[i][1] \notin validKeys
           THEN [status |-> 400, error |-> "InvalidWeightKey",
                 key |-> body.entries[i][1]]
           ELSE [status |-> 400, error |-> "InvalidWeightValue",
                 key |-> body.entries[i][1]]

\* A faulty variant: each entry is applied as soon as it has passed, so the entries
\* before a rejected one are merged
weightsAppliedEntryByEntry(current, body) ==
  IF ~body.isObject THEN current
  ELSE LET i == FirstRejected(body.entries, 1)
       IN  IF i = 0 THEN updateScoringWeights(current, body.entries)
           ELSE updateScoringWeights(current, SubSeq(body.entries, 1, i - 1))

\* ScoringService.defaultWeights after ScoringController.updateWeights has
\* handled body: updateScoringWeights is called only after every entry passed
weightsAfterUpdateWeights(current, body) ==
  IF updateWeightsResponse(body).status = 200
  THEN updateScoringWeights(current, body.entries)
  ELSE current

\* ScoringController.updateWeights, the whole handler (it never awaits)
updateWeights(body) ==
  /\ req' = body
  /\ res' = updateWeightsResponse(body)
  /\ defaultWeights' = weightsAfterUpdateWeights(defaultWeights, body)
  /\ UNCHANGED <<tanks, cache, proc>>

(* Requests and starting states of the weight configuration *)

\* At most this many entries in the "weights" object of one request
MaxEntries == 2

EntryKeys == validKeys \cup {"foo"}

EntryValues == {Q(0, 1), Q(1, 2), Q(1, 1), Q(3, 2), Q(-1, 2), NotANumber}

\* The objects of at most MaxEntries entries (an object's keys are distinct)
EntryLists ==
  {s \in UNION {[1..m -> EntryKeys \X EntryValues] : m \in 0..MaxEntries} :
     \A i, j \in 1..Len(s) : i # j => s[i][1] # s[j][1]}

Bodies ==
  {[isObject |-> FALSE, entries |-> <<>>]}
    \cup {[isObject |-> TRUE, entries |-> s] : s \in EntryLists}

NoBody == [isObject |-> FALSE, entries |-> <<>>]

\* A request that names all six keys: weight 1 for the keys of ks, 0 for the rest
FullRequest(ks) ==
  LET RECURSIVE Build(_)
      Build(rest) ==
        IF rest = {} THEN <<>>
        ELSE LET k == CHOOSE x \in rest : TRUE
             IN  <<<<k, IF k \in ks THEN Q(1, 1) ELSE Q(0, 1)>>>> \o Build(rest \ {k})
  IN  Build(validKeys)

\* WeightSets the service holds after construction or after one accepted
\* request naming all six keys
StartingWeightSets ==
  {InitialDefaultWeights}
    \cup {updateScoringWeights(InitialDefaultWeights, FullRequest(ks)) :
            ks \in {{"damage"}, {"damage", "armor"}, validKeys}}

----------------------------------------------------------------------------
(* Per-dimension scorers and the overall score: ScoringService *)

\* ScoringService.referenceValues
maxDamage == 750

maxHealth == 2500

maxArmor == 300

maxSpeed == 70

maxPenetration == 300

maxPower == 1000

\* TankType
LIGHT == "lightTank"

MEDIUM == "mediumTank"

HEAVY == "heavyTank"

DESTROYER == "AT-SPG"

SPG == "SPG"

TankTypes == {LIGHT, MEDIUM, HEAVY, DESTROYER, SPG}

\* An integer attribute as a number
N(x) == Q(x, 1)

\* A decimal literal of the code with two decimals, given in hundredths
D(x) == Q(x, 100)

calculateDamageScore(tank) ==
  LET damagePerShot == N(tank.gun_damage)
      rateOfFire    == N(tank.gun_rof)
      dpm           == RMul(damagePerShot, rateOfFire)
      damageRatio   == RDiv(damagePerShot, N(maxDamage))
      dpmRatio      == RDiv(dpm, RMul(N(maxDamage), N(10)))
  IN  MathMin(N(100),
        RMul(RAdd(RMul(damageRatio, D(60)), RMul(dpmRatio, D(40))), N(100)))

calculateSurvivalScore(tank) ==
  LET healthRatio   == RDiv(N(tank.health), N(maxHealth))
      avgArmorRatio ==
        RDiv(RDiv(N(tank.armor_front + tank.armor_side + tank.armor_rear), N(3)),
             N(maxArmor))
  IN  MathMin(N(100),
        RMul(RAdd(RMul(healthRatio, D(70)), RMul(avgArmorRatio, D(30))), N(100)))

calculateArmorScore(tank) ==
  LET frontArmorRatio == RDiv(N(tank.armor_front), N(maxArmor))
      sideArmorRatio  == RDiv(N(tank.armor_side), N(maxArmor))
      rearArmorRatio  == RDiv(N(tank.armor_rear), N(maxArmor))
      weightedArmor   ==
        RAdd(RAdd(RMul(frontArmorRatio, D(50)), RMul(sideArmorRatio, D(30))),
             RMul(rearArmorRatio, D(20)))
  IN  MathMin(N(100), RMul(weightedArmor, N(100)))

calculateMobilityScore(tank) ==
  LET speedRatio         == RDiv(N(tank.mobility_speed), N(maxSpeed))
      powerRatio         == RDiv(N(tank.mobility_power), N(maxPower))
      powerToWeightRatio == RDiv(N(tank.mobility_power), RDiv(N(tank.health), N(1000)))
      powerToWeightScore == MathMin(N(1), RDiv(powerToWeightRatio, N(30)))
  IN  MathMin(N(100),
        RMul(RAdd(RAdd(RMul(speedRatio, D(40)), RMul(powerRatio, D(30))),
                  RMul(powerToWeightScore, D(30))),
             N(100)))

calculatePenetrationScore(tank) ==
  LET penetrationRatio == RDiv(N(tank.gun_penetration), N(maxPenetration))
  IN  MathMin(N(100), RMul(penetrationRatio, N(100)))

\* The switch of calculateWinRateScore over tank.type
typeModifier(type) ==
  CASE type = HEAVY     -> D(110)
    [] type = MEDIUM    -> D(105)
    [] type = LIGHT     -> D(95)
    [] type = DESTROYER -> D(90)
    [] OTHER            -> D(100)

calculateWinRateScore(tank) ==
  LET damageScore   == calculateDamageScore(tank)
      survivalScore == calculateSurvivalScore(tank)
      mobilityScore == calculateMobilityScore(tank)
      balanceScore  ==
        RDiv(RAdd(RAdd(damageScore, survivalScore), mobilityScore), N(3))
  IN  MathMin(N(100), RMul(balanceScore, typeModifier(tank.type)))

\* weights.k: a key the object lacks reads as undefined, NaN in arithmetic
WeightOf(weights, k) == IF k \in DOMAIN weights THEN weights[k] ELSE NaN

calculateOverallScore(tank, weights) ==
  LET damageScore      == calculateDamageScore(tank)
      survivalScore    == calculateSurvivalScore(tank)
      armorScore       == calculateArmorScore(tank)
      mobilityScore    == calculateMobilityScore(tank)
      penetrationScore == calculatePenetrationScore(tank)
      winRateScore     == calculateWinRateScore(tank)
      overallScore     ==
        RAdd(RAdd(RAdd(RAdd(RAdd(
          RMul(damageScore, WeightOf(weights, "damage")),
          RMul(winRateScore, WeightOf(weights, "winRate"))),
          RMul(survivalScore, WeightOf(weights, "survival"))),
          RMul(armorScore, WeightOf(weights, "armor"))),
          RMul(mobilityScore, WeightOf(weights, "mobility"))),
          RMul(penetrationScore, WeightOf(weights, "penetration")))
  IN  RDiv(MathRound(RMul(overallScore, N(100))), N(100))

\* The spec's example vehicle: its overall score under the default weights
ExampleTank ==
  [id |-> 1, tier |-> 10, type |-> HEAVY, health |-> 1800,
   armor_front |-> 300, armor_side |-> 200, armor_rear |-> 100,
   gun_damage |-> 400, gun_penetration |-> 200, gun_rof |-> 6,
   mobility_speed |-> 45, mobility_power |-> 650]

----------------------------------------------------------------------------
(* Storage (TankModel over the tanks table) and cache (CacheService) *)

Null == <<>>

\* ORDER BY id ASC: the k-th id is the one with k - 1 smaller ids
SortedIds(ids) ==
  [k \in 1..Cardinality(ids) |->
     CHOOSE x \in ids : Cardinality({y \in ids : y < x}) = k - 1]

Min2(a, b) == IF a < b THEN a ELSE b

\* LIMIT limit OFFSET offset over a sequence of rows
LimitOffset(rows, limit, offset) ==
  SubSeq(rows, offset + 1, Min2(Len(rows), offset + limit))

\* A faulty variant: the offset is page * limit, so the first page is never read
getTanksOffsetByPage(table, filter, page, limit) ==
  LET matching == {i \in DOMAIN table :
                     \/ filter[1] = "all"
                     \/ filter[1] = "tier" /\ table[i].tier = filter[2]
                     \/ filter[1] = "type" /\ table[i].type = filter[2]}
      ordered  == SortedIds(matching)
      rows     == [k \in 1..Len(ordered) |-> table[ordered[k]]]
  IN  LimitOffset(rows, limit, page * limit)

\* TankModel.getTanks(filters, sort, {page, limit}).tanks for the two filters
\* and sort orders the scoring service uses.  filter is <<"all">>,
\* <<"tier", t>> or <<"type", ty>>; rows of equal sort key come in id order.
getTanks(table, filter, page, limit) ==
  LET matching == {i \in DOMAIN table :
                     \/ filter[1] = "all"
                     \/ filter[1] = "tier" /\ table[i].tier = filter[2]
                     \/ filter[1] = "type" /\ table[i].type = filter[2]}
      ordered  == SortedIds(matching)
      rows     == [k \in 1..Len(ordered) |-> table[ordered[k]]]
      offset   == (page - 1) * limit
  IN  LimitOffset(rows, limit, offset)

\* A score as a DECIMAL(8,3) column stores it: rounded to three decimals
Decimal3(x) ==
  IF ~IsFinite(x) THEN x
  ELSE LET d  == x[2]
           q0 == Abs(x[1]) \div d
           r0 == Abs(x[1]) % d
           q1 == (r0 * 10) \div d
           r1 == (r0 * 10) % d
           q2 == (r1 * 10) \div d
           r2 == (r1 * 10) % d
           q3 == (r2 * 10) \div d
           r3 == (r2 * 10) % d
           th == q0 * 1000 + q1 * 100 + q2 * 10 + q3 + (IF r3 >= d - r3 THEN 1 ELSE 0)
       IN  Norm(Sign(x[1]) * th, 1000)

\* TankModel.updateTankScores(id, {overall, tier, type}): UPDATE ... WHERE id
updateTankScoresRow(table, id, overall, tier, type) ==
  IF id \in DOMAIN table
  THEN [table EXCEPT ![id].score_overall = Decimal3(overall),
                     ![id].score_tier = Decimal3(tier),
                     ![id].score_type = Decimal3(type)]
  ELSE table

\* Cache keys
tierAverageKey(tier) == <<"tier_average", tier>>

typeAverageKey(type) == <<"type_average", type>>

getTankCacheKey(id) == <<"tank", id>>

getRankingCacheKey(category) == <<"ranking", category>>

StatsKey == <<"tanks:stats">>

AllTanksKey == <<"wargaming:all_tanks">>

\* JSON.parse(JSON.stringify(value)): NaN and the infinities come back as null
JsonRoundTrip(value) ==
  IF Len(value) = 2 /\ ~IsFinite(value) THEN Null ELSE value

\* CacheService.get(key): the value, or null
CacheGet(c, key) == IF key \in DOMAIN c THEN c[key] ELSE Null

\* CacheService.set(key, value, ttl): redis.setex(key, ttl, JSON.stringify(value))
CacheSet(c, key, value) ==
  [k \in DOMAIN c \cup {key} |-> IF k = key THEN JsonRoundTrip(value) ELSE c[k]]

\* CacheService.del(key) for each key of keys
CacheDel(c, keys) == [k \in DOMAIN c \ keys |-> c[k]]

\* keys of ScoringService.invalidateScoreCache(tank)
invalidateScoreCacheKeys(tank) ==
  {getTankCacheKey(tank.id),
   getRankingCacheKey(<<"overall">>),
   getRankingCacheKey(<<"tier", tank.tier>>),
   getRankingCacheKey(<<"type", tank.type>>),
   tierAverageKey(tank.tier),
   typeAverageKey(tank.type)}

\* keys of ScoringService.invalidateAllScoreCache()
invalidateAllScoreCacheKeys == {StatsKey, AllTanksKey}

----------------------------------------------------------------------------
(* Relative scores: calculateTierScore / calculateTypeScore *)

\* !average : null, 0 and NaN are falsy
Falsy(x) == x = Null \/ ~Truthy(x)

\* t.score_overall || 0
OrZero(x) == IF Falsy(x) THEN Zero ELSE x

RECURSIVE SumScores(_, _)
\* rows.reduce((sum, t) => sum + (t.score_overall || 0), 0), from row i on
SumScores(rows, i) ==
  IF i > Len(rows) THEN Zero
  ELSE RAdd(OrZero(rows[i].score_overall), SumScores(rows, i + 1))

\* The fallback average of an empty cohort
defaultAverage == 75

\* The limit of the cohort query
cohortLimit == 1000

\* The average the code derives from the rows of the cohort query
cohortAverage(rows) ==
  IF Len(rows) > 0
  THEN RDiv(SumScores(rows, 1), N(Len(rows)))
  ELSE N(defaultAverage)

\* Math.min(100, Math.max(0, (overallScore / average) * 75))
relativeScore(overallScore, average) ==
  MathMin(N(100), MathMax(N(0), RMul(RDiv(overallScore, average), N(75))))

----------------------------------------------------------------------------
(* Request handlers.  A handler is a sequence of steps; each step is the   *)
(* synchronous code that runs after the previous await together with the   *)
(* effect of the storage or cache call it then awaits.                     *)

Procs == {"p1", "p2"}

\* The page size of recalculateAllScores (50 in the code), scaled down
PageLimit == 2

NoCustomWeights == [given |-> FALSE, w |-> <<>>]

NoTank == [id |-> 0]

IdleProc ==
  [pc |-> "idle", handler |-> None, customWeights |-> NoCustomWeights,
   page |-> 0, rows |-> <<>>, idx |-> 0, updated |-> 0, errors |-> 0,
   tank |-> NoTank, subscores |-> Null, overallScore |-> Null,
   tierAverage |-> Null, tierScore |-> Null,
   typeAverage |-> Null, typeScore |-> Null,
   response |-> [status |-> 0, updated |-> 0, errors |-> 0],
   \* history of the call, for the properties
   pages |-> <<>>, attempted |-> <<>>, persisted |-> <<>>, failed |-> <<>>,
   \* the rows the call has written: <<id, overall, tier, type>>
   written |-> <<>>,
   fetchFailed |-> FALSE,
   \* the steps of the call at which a cache operation failed
   cacheFaults |-> <<>>,
   \* the Redis client has rejected the cache read the call is waiting for
   getRejected |-> FALSE,
   \* syncTanks: the vehicles of getAllTanks, insertedCount of bulkUpsertTanks,
   \* and whether the request to the upstream API failed
   list |-> <<>>, insertedCount |-> 0, upstreamFailed |-> FALSE,
   \* the values this.defaultWeights had each time the call read it
   weightsRead |-> <<>>,
   \* simulateScore: the two scores of its answer
   currentScore |-> Null, simulatedScore |-> Null,
   \* generateScoreReport: stats.total, and the report it returns
   statsTotal |-> 0,
   report |-> [totalTanks |-> 0, averageScores |-> <<>>, scoreDistribution |-> <<>>]]

Set(p, new) == proc' = [proc EXCEPT ![p] = new]

\* A faulty variant: the override is ignored
effectiveWeightsIgnoringOverride(customWeights, current) == current

\* const weights = customWeights || this.defaultWeights
effectiveWeights(customWeights, current) ==
  IF customWeights.given THEN customWeights.w ELSE current

\* The six sub-scores calculateOverallScore computes for a tank
subScores(tank) ==
  [damage      |-> calculateDamageScore(tank),
   survival    |-> calculateSurvivalScore(tank),
   armor       |-> calculateArmorScore(tank),
   mobility    |-> calculateMobilityScore(tank),
   penetration |-> calculatePenetrationScore(tank),
   winRate     |-> calculateWinRateScore(tank)]

\* A faulty variant: the loop forgets page++ and fetches the same page again
afterUpdateTankScoresPageNotAdvanced(pr, outcome) ==
  IF pr.idx < Len(pr.rows)
  THEN [pr EXCEPT !.updated = pr.updated + 1, !.idx = pr.idx + 1,
                  !.tank = pr.rows[pr.idx + 1], !.pc = "tierGet"]
  ELSE [pr EXCEPT !.updated = pr.updated + 1, !.pc = "fetchPage"]

\* recalculateAllScores after updateTankScores(tank) has settled for the
\* current row: outcome is "returned" or "threw".  The next row of the page,
\* or the next page.
afterUpdateTankScores(pr, outcome) ==
  LET counted == IF outcome = "threw"
                 THEN [pr EXCEPT !.errors = pr.errors + 1]
                 ELSE [pr EXCEPT !.updated = pr.updated + 1]
  IN  IF pr.idx < Len(pr.rows)
      THEN [counted EXCEPT !.idx = pr.idx + 1, !.tank = pr.rows[pr.idx + 1],
                           !.pc = "tierGet"]
      ELSE [counted EXCEPT !.page = pr.page + 1, !.pc = "fetchPage"]

\* What updateTankScores hands its caller when a step inside its try block
\* failed: the catch logs and returns null
updateTankScoresOnError == "returned"

\* The caller of updateTankScores resumes: the sweep goes on, the
\* POST /tank/:id handler answers
resume(pr, outcome) ==
  IF pr.handler = "recalculateScores"
  THEN afterUpdateTankScores(pr, outcome)
  ELSE [pr EXCEPT !.pc = "done",
                  !.response = [status |-> IF outcome = "threw" THEN 500 ELSE 200,
                                updated |-> 0, errors |-> 0]]

\* POST /api/scoring/recalculate: recalculateScores calls recalculateAllScores
StartRecalculateScores(p, cw) ==
  /\ proc[p].pc = "idle"
  /\ Set(p, [IdleProc EXCEPT !.handler = "recalculateScores",
                             !.customWeights = cw,
                             !.page = 1, !.pc = "fetchPage"])
  /\ UNCHANGED <<tanks, cache, defaultWeights, req, res>>

\* await this.tankModel.getTanks({}, {id asc}, {page, limit})
FetchPage(p) ==
  LET pr   == proc[p]
      rows == getTanks(tanks, <<"all">>, pr.page, PageLimit)
      got  == [pr EXCEPT !.rows = rows,
                         !.pages = Append(pr.pages, <<pr.page, Len(rows)>>)]
  IN  /\ pr.pc = "fetchPage"
      /\ Set(p, IF Len(rows) = 0
                THEN [got EXCEPT !.pc = "invalidateAll"]
                ELSE [got EXCEPT !.idx = 1, !.tank = rows[1], !.pc = "tierGet"])
      /\ UNCHANGED <<tanks, cache, defaultWeights, req, res>>

\* A faulty variant: a rejected page fetch ends the loop like an empty page
FetchPageFailsEndsLoop(p) ==
  LET pr == proc[p]
  IN  /\ pr.pc = "fetchPage"
      /\ Set(p, [pr EXCEPT !.pc = "invalidateAll", !.fetchFailed = TRUE])
      /\ UNCHANGED <<tanks, cache, defaultWeights, req, res>>

\* getTanks rejects: recalculateAllScores rethrows, recalculateScores answers 500
FetchPageFails(p) ==
  LET pr == proc[p]
  IN  /\ pr.pc = "fetchPage"
      /\ Set(p, [pr EXCEPT !.pc = "done", !.fetchFailed = TRUE,
                           !.response = [status |-> 500, updated |-> 0, errors |-> 0]])
      /\ UNCHANGED <<tanks, cache, defaultWeights, req, res>>

\* A faulty variant: the weights the call uses become the process-wide ones
TierGetPersistingOverride(p) ==
  LET pr     == proc[p]
      w      == effectiveWeights(pr.customWeights, defaultWeights)
      cached == CacheGet(cache, tierAverageKey(pr.tank.tier))
      called == [pr EXCEPT !.subscores = subScores(pr.tank),
                           !.overallScore = calculateOverallScore(pr.tank, w),
                           !.attempted = Append(pr.attempted, pr.tank.id)]
  IN  /\ pr.pc = "tierGet"
      /\ defaultWeights' = w
      /\ Set(p, IF Falsy(cached)
                THEN [called EXCEPT !.pc = "tierFetch"]
                ELSE [called EXCEPT !.tierAverage = cached, !.pc = "typeGet"])
      /\ UNCHANGED <<tanks, cache, req, res>>

\* What CacheService.get returns from its catch
cacheGetOnError == Null

\* The answer of CacheService.get(key) to the call pr: the catch's null when
\* the Redis client has rejected the read
cacheGetAnswer(pr, c, key) ==
  IF pr.getRejected THEN cacheGetOnError ELSE CacheGet(c, key)

\* updateTankScores up to the cache read of calculateTierScore
TierGet(p) ==
  LET pr     == proc[p]
      w      == effectiveWeights(pr.customWeights, defaultWeights)
      cached == cacheGetAnswer(pr, cache, tierAverageKey(pr.tank.tier))
      called == [pr EXCEPT !.subscores = subScores(pr.tank),
                           !.overallScore = calculateOverallScore(pr.tank, w),
                           !.tierAverage = Null, !.tierScore = Null,
                           !.typeAverage = Null, !.typeScore = Null,
                           !.getRejected = FALSE,
                           !.attempted = Append(pr.attempted, pr.tank.id),
                           !.weightsRead = IF pr.customWeights.given
                                           THEN pr.weightsRead
                                           ELSE Append(pr.weightsRead, defaultWeights)]
  IN  /\ pr.pc = "tierGet"
      /\ Set(p, IF Falsy(cached)
                THEN [called EXCEPT !.pc = "tierFetch"]
                ELSE [called EXCEPT !.tierAverage = cached, !.pc = "typeGet"])
      /\ UNCHANGED <<tanks, cache, defaultWeights, req, res>>

\* calculateTierScore: the cohort query after a cache miss
TierFetch(p) ==
  LET pr   == proc[p]
      rows == getTanks(tanks, <<"tier", pr.tank.tier>>, 1, cohortLimit)
  IN  /\ pr.pc = "tierFetch"
      /\ Set(p, [pr EXCEPT !.tierAverage = cohortAverage(rows),
                           !.pc = IF Len(rows) > 0 THEN "tierSet" ELSE "typeGet"])
      /\ UNCHANGED <<tanks, cache, defaultWeights, req, res>>

\* calculateTierScore: CacheService.set(cacheKey, tierAverage, 3600)
TierSet(p) ==
  LET pr == proc[p]
  IN  /\ pr.pc = "tierSet"
      /\ cache' = CacheSet(cache, tierAverageKey(pr.tank.tier), pr.tierAverage)
      /\ Set(p, [pr EXCEPT !.pc = "typeGet"])
      /\ UNCHANGED <<tanks, defaultWeights, req, res>>

\* The rest of calculateTierScore, then calculateTypeScore up to its cache read
TypeGet(p) ==
  LET pr     == proc[p]
      tier   == relativeScore(calculateOverallScore(pr.tank, defaultWeights),
                              pr.tierAverage)
      cached == cacheGetAnswer(pr, cache, typeAverageKey(pr.tank.type))
      scored == [pr EXCEPT !.tierScore = tier, !.getRejected = FALSE,
                           !.weightsRead = Append(pr.weightsRead, defaultWeights)]
  IN  /\ pr.pc = "typeGet"
      /\ Set(p, IF Falsy(cached)
                THEN [scored EXCEPT !.pc = "typeFetch"]
                ELSE [scored EXCEPT !.typeAverage = cached, !.pc = "persist"])
      /\ UNCHANGED <<tanks, cache, defaultWeights, req, res>>

\* calculateTypeScore: the cohort query after a cache miss
TypeFetch(p) ==
  LET pr   == proc[p]
      rows == getTanks(tanks, <<"type", pr.tank.type>>, 1, cohortLimit)
  IN  /\ pr.pc = "typeFetch"
      /\ Set(p, [pr EXCEPT !.typeAverage = cohortAverage(rows),
                           !.pc = IF Len(rows) > 0 THEN "typeSet" ELSE "persist"])
      /\ UNCHANGED <<tanks, cache, defaultWeights, req, res>>

\* calculateTypeScore: CacheService.set(cacheKey, typeAverage, 3600)
TypeSet(p) ==
  LET pr == proc[p]
  IN  /\ pr.pc = "typeSet"
      /\ cache' = CacheSet(cache, typeAverageKey(pr.tank.type), pr.typeAverage)
      /\ Set(p, [pr EXCEPT !.pc = "persist"])
      /\ UNCHANGED <<tanks, defaultWeights, req, res>>

\* The rest of calculateTypeScore, then tankModel.updateTankScores(tank.id, ...)
Persist(p) ==
  LET pr   == proc[p]
      type == relativeScore(calculateOverallScore(pr.tank, defaultWeights),
                            pr.typeAverage)
  IN  /\ pr.pc = "persist"
      /\ tanks' = updateTankScoresRow(tanks, pr.tank.id, pr.overallScore,
                                      pr.tierScore, type)
      /\ Set(p, [pr EXCEPT !.typeScore = type,
                           !.weightsRead = Append(pr.weightsRead, defaultWeights),
                           !.persisted = IF pr.tank.id \in DOMAIN tanks
                                         THEN Append(pr.persisted, pr.tank.id)
                                         ELSE pr.persisted,
                           !.written = IF pr.tank.id \in DOMAIN tanks
                                       THEN Append(pr.written,
                                              <<pr.tank.id, Decimal3(pr.overallScore),
                                                Decimal3(pr.tierScore), Decimal3(type)>>)
                                       ELSE pr.written,
                           !.pc = "invalidate"])
      /\ UNCHANGED <<cache, defaultWeights, req, res>>

\* invalidateScoreCache(tank), then updateTankScores returns the updated row
Invalidate(p) ==
  LET pr == proc[p]
  IN  /\ pr.pc = "invalidate"
      /\ cache' = CacheDel(cache, invalidateScoreCacheKeys(pr.tank))
      /\ Set(p, resume(pr, "returned"))
      /\ UNCHANGED <<tanks, defaultWeights, req, res>>

\* A faulty variant: updateTankScores lets the error escape and nothing around the call
\* catches it, so the handler answers 500
vehicleFailureAborts(pr) ==
  [pr EXCEPT !.pc = "done",
             !.response = [status |-> 500, updated |-> 0, errors |-> 0]]

\* A step inside the try block of updateTankScores failed: its catch returns
\* null, and the caller resumes as after any return
vehicleFailure(pr) == resume(pr, updateTankScoresOnError)

\* A faulty variant: the cache entries are dropped even though the call failed
StorageFailsStillInvalidates(p) ==
  LET pr == proc[p]
  IN  /\ pr.pc \in {"tierFetch", "typeFetch", "persist"}
      /\ cache' = CacheDel(cache, invalidateScoreCacheKeys(pr.tank))
      /\ Set(p, vehicleFailure(
                  [pr EXCEPT !.failed = Append(pr.failed, <<pr.tank.id, pr.pc>>)]))
      /\ UNCHANGED <<tanks, defaultWeights, req, res>>

\* A storage call inside updateTankScores rejects (a cohort query or the
\* UPDATE)
StorageFails(p) ==
  LET pr == proc[p]
  IN  /\ pr.pc \in {"tierFetch", "typeFetch", "persist"}
      /\ Set(p, vehicleFailure(
                  [pr EXCEPT !.failed = Append(pr.failed, <<pr.tank.id, pr.pc>>)]))
      /\ UNCHANGED <<tanks, cache, defaultWeights, req, res>>

\* A faulty variant: the error of the Redis client escapes CacheService and
\* lands in the catch of updateTankScores
cacheFaultEscapes(pr, next) ==
  vehicleFailure([pr EXCEPT !.cacheFaults = Append(pr.cacheFaults, pr.pc)])

\* The Redis client rejects inside CacheService.get, set or del: the method's
\* catch logs the error and returns null or false, and the caller carries on
\* to next
cacheFault(pr, next) ==
  [next EXCEPT !.cacheFaults = Append(pr.cacheFaults, pr.pc)]

\* calculateTierScore / calculateTypeScore: the Redis client rejects the read
\* of the cached average; the call resumes with what CacheService.get returns
AverageGetCacheFails(p) ==
  LET pr == proc[p]
  IN  /\ pr.pc \in {"tierGet", "typeGet"}
      /\ ~pr.getRejected
      /\ Set(p, cacheFault(pr, [pr EXCEPT !.getRejected = TRUE]))
      /\ UNCHANGED <<tanks, cache, defaultWeights, req, res>>

\* calculateTierScore / calculateTypeScore: the write of the average fails
AverageSetCacheFails(p) ==
  LET pr == proc[p]
  IN  /\ pr.pc \in {"tierSet", "typeSet"}
      /\ Set(p, cacheFault(pr, [pr EXCEPT !.pc = IF pr.pc = "tierSet"
                                                 THEN "typeGet" ELSE "persist"]))
      /\ UNCHANGED <<tanks, cache, defaultWeights, req, res>>

\* invalidateScoreCache: some of the six deletes fail, the others go through
InvalidateCacheFails(p) ==
  LET pr   == proc[p]
      keys == invalidateScoreCacheKeys(pr.tank)
  IN  /\ pr.pc = "invalidate"
      /\ \E lost \in SUBSET keys \ {{}} :
           cache' = CacheDel(cache, keys \ lost)
      /\ Set(p, cacheFault(pr, resume(pr, "returned")))
      /\ UNCHANGED <<tanks, defaultWeights, req, res>>

\* The steps of updateTankScores at which a cache operation fails
CacheFaultStep(p) ==
  \/ AverageGetCacheFails(p)
  \/ AverageSetCacheFails(p)
  \/ InvalidateCacheFails(p)

\* A faulty variant: the summary goes back without invalidateAllScoreCache()
InvalidateAllSkipped(p) ==
  LET pr == proc[p]
  IN  /\ pr.pc = "invalidateAll"
      /\ Set(p, [pr EXCEPT !.pc = "done",
                           !.response = [status |-> 200, updated |-> pr.updated,
                                         errors |-> pr.errors]])
      /\ UNCHANGED <<tanks, cache, defaultWeights, req, res>>

\* invalidateAllScoreCache(), then the summary goes back to the client
InvalidateAll(p) ==
  LET pr == proc[p]
  IN  /\ pr.pc = "invalidateAll"
      /\ cache' = CacheDel(cache, invalidateAllScoreCacheKeys)
      /\ Set(p, [pr EXCEPT !.pc = "done",
                           !.response = [status |-> 200, updated |-> pr.updated,
                                         errors |-> pr.errors]])
      /\ UNCHANGED <<tanks, defaultWeights, req, res>>

\* POST /api/scoring/tank/:id: recalculateTankScore up to tankModel.getTankById
StartRecalculateTankScore(p, id, cw) ==
  /\ proc[p].pc = "idle"
  /\ Set(p, [IdleProc EXCEPT !.handler = "recalculateTankScore",
                             !.customWeights = cw,
                             !.tank = [id |-> id], !.pc = "getTank"])
  /\ UNCHANGED <<tanks, cache, defaultWeights, req, res>>

\* await this.tankModel.getTankById(tankId): 404 when there is no such row
GetTank(p) ==
  LET pr == proc[p]
  IN  /\ pr.pc = "getTank"
      /\ Set(p, IF pr.tank.id \in DOMAIN tanks
                THEN [pr EXCEPT !.tank = tanks[pr.tank.id], !.pc = "tierGet"]
                ELSE [pr EXCEPT !.pc = "done",
                                !.response = [status |-> 404, updated |-> 0,
                                              errors |-> 0]])
      /\ UNCHANGED <<tanks, cache, defaultWeights, req, res>>

\* getTankById rejects: the handler's catch answers 500
GetTankFails(p) ==
  LET pr == proc[p]
  IN  /\ pr.pc = "getTank"
      /\ Set(p, [pr EXCEPT !.pc = "done", !.fetchFailed = TRUE,
                           !.response = [status |-> 500, updated |-> 0, errors |-> 0]])
      /\ UNCHANGED <<tanks, cache, defaultWeights, req, res>>

\* GET /api/scoring/simulate/:id: simulateScore up to tankModel.getTankById
StartSimulateScore(p, id, cw) ==
  /\ proc[p].pc = "idle"
  /\ Set(p, [IdleProc EXCEPT !.handler = "simulateScore",
                             !.customWeights = cw,
                             !.tank = [id |-> id], !.pc = "simulate"])
  /\ UNCHANGED <<tanks, cache, defaultWeights, req, res>>

\* simulateScore after getTankById: 404, or the score under the current
\* weights and the score under the weights of the query, then the answer
SimulateScore(p) ==
  LET pr        == proc[p]
      tank      == tanks[pr.tank.id]
      current   == calculateOverallScore(tank, effectiveWeights(NoCustomWeights,
                                                                defaultWeights))
      simulated == IF pr.customWeights.given
                   THEN calculateOverallScore(tank, effectiveWeights(pr.customWeights,
                                                                    defaultWeights))
                   ELSE current
  IN  /\ pr.pc = "simulate"
      /\ Set(p, IF pr.tank.id \in DOMAIN tanks
                THEN [pr EXCEPT !.tank = tank, !.currentScore = current,
                                !.simulatedScore = simulated,
                                !.weightsRead = <<defaultWeights>>,
                                !.pc = "done",
                                !.response = [status |-> 200, updated |-> 0,
                                              errors |-> 0]]
                ELSE [pr EXCEPT !.pc = "done",
                                !.response = [status |-> 404, updated |-> 0,
                                              errors |-> 0]])
      /\ UNCHANGED <<tanks, cache, defaultWeights, req, res>>

\* ORDER BY score_overall DESC as PostgreSQL sorts: NULL first, then NaN,
\* then the numbers from the largest down; rows of equal score in id order
ScoreDescBefore(a, b) ==
  LET rank(x) == IF x = Null THEN 0 ELSE IF IsNaN(x) THEN 1 ELSE 2
      ra == rank(a.score_overall)
      rb == rank(b.score_overall)
  IN  \/ ra < rb
      \/ ra = rb /\ ra = 2 /\ RLt(b.score_overall, a.score_overall)
      \/ ra = rb /\ (ra < 2 \/ a.score_overall = b.score_overall) /\ a.id < b.id

\* TankModel.getTanks({}, {field: 'score_overall', order: 'desc'}, {page: 1, limit})
getTanksByScore(table, limit) ==
  LET ids     == DOMAIN table
      ordered == [k \in 1..Cardinality(ids) |->
                    CHOOSE i \in ids :
                      Cardinality({j \in ids : ScoreDescBefore(table[j], table[i])}) = k - 1]
      rows    == [k \in 1..Cardinality(ids) |-> table[ordered[k]]]
  IN  LimitOffset(rows, limit, 0)

\* The range generateScoreReport files a row under
scoreRange(tank) ==
  LET score == OrZero(tank.score_overall)
  IN  IF RLe(N(90), score) THEN "90-100"
      ELSE IF RLe(N(80), score) THEN "80-89"
      ELSE IF RLe(N(70), score) THEN "70-79"
      ELSE IF RLe(N(60), score) THEN "60-69"
      ELSE "0-59"

\* scoreDistribution: acc[range] = (acc[range] || 0) + 1 over the rows
scoreDistribution(rows) ==
  [range \in {scoreRange(rows[i]) : i \in 1..Len(rows)} |->
     Cardinality({i \in 1..Len(rows) : scoreRange(rows[i]) = range})]

RECURSIVE SumField(_, _, _)
\* rows.reduce((acc, tank) => acc + (tank[field] || 0), 0), from row i on
SumField(rows, field, i) ==
  IF i > Len(rows) THEN Zero
  ELSE RAdd(OrZero(rows[i][field]), SumField(rows, field, i + 1))

\* averageScores of generateScoreReport
averageScores(rows) ==
  [overall |-> RDiv(SumField(rows, "score_overall", 1), N(Len(rows))),
   tier    |-> RDiv(SumField(rows, "score_tier", 1), N(Len(rows))),
   type    |-> RDiv(SumField(rows, "score_type", 1), N(Len(rows)))]

\* The limit of the query generateScoreReport analyses (1000 in the code)
ReportLimit == 3

\* GET /api/scoring/report: getScoreReport calls generateScoreReport
StartScoreReport(p) ==
  /\ proc[p].pc = "idle"
  /\ Set(p, [IdleProc EXCEPT !.handler = "getScoreReport", !.pc = "reportStats"])
  /\ UNCHANGED <<tanks, cache, defaultWeights, req, res>>

\* const stats = await this.tankModel.getStats()
ReportStats(p) ==
  LET pr == proc[p]
  IN  /\ pr.pc = "reportStats"
      /\ Set(p, [pr EXCEPT !.statsTotal = Cardinality(DOMAIN tanks),
                           !.pc = "reportTop"])
      /\ UNCHANGED <<tanks, cache, defaultWeights, req, res>>

\* const topTanks = await this.tankModel.getTopTanks('overall', 10)
ReportTop(p) ==
  LET pr == proc[p]
  IN  /\ pr.pc = "reportTop"
      /\ Set(p, [pr EXCEPT !.rows = getTanksByScore(tanks, 10), !.pc = "reportAll"])
      /\ UNCHANGED <<tanks, cache, defaultWeights, req, res>>

\* The query for all tanks, then the averages, the distribution and the answer
ReportAll(p) ==
  LET pr       == proc[p]
      allTanks == getTanksByScore(tanks, ReportLimit)
  IN  /\ pr.pc = "reportAll"
      /\ Set(p, [pr EXCEPT !.report = [totalTanks        |-> pr.statsTotal,
                                       averageScores     |-> averageScores(allTanks),
                                       scoreDistribution |-> scoreDistribution(allTanks)],
                           !.pc = "done",
                           !.response = [status |-> 200, updated |-> 0, errors |-> 0]])
      /\ UNCHANGED <<tanks, cache, defaultWeights, req, res>>

\* A row as upsertTank inserts it: the three scores take the column default 0
Row(id, attrs) ==
  [id |-> id, tier |-> attrs.tier, type |-> attrs.type, health |-> attrs.health,
   armor_front |-> attrs.armor_front, armor_side |-> attrs.armor_side,
   armor_rear |-> attrs.armor_rear, gun_damage |-> attrs.gun_damage,
   gun_penetration |-> attrs.gun_penetration, gun_rof |-> attrs.gun_rof,
   mobility_speed |-> attrs.mobility_speed, mobility_power |-> attrs.mobility_power,
   score_overall |-> Zero, score_tier |-> Zero, score_type |-> Zero]

\* TankModel.upsertTank(tank): INSERT ... ON CONFLICT (id) DO UPDATE of the raw
\* attributes; the scores of an existing row stay, a new row takes the defaults
\* A faulty variant: the statement also deletes the rows of lower id
upsertTankRowDroppingLower(table, attrs) ==
  [i \in {j \in DOMAIN table : j > attrs.id} \cup {attrs.id} |->
     IF i # attrs.id THEN table[i] ELSE Row(attrs.id, attrs)]

upsertTankRow(table, attrs) ==
  LET id  == attrs.id
      new == Row(id, attrs)
  IN  [i \in DOMAIN table \cup {id} |->
         IF i # id THEN table[i]
         ELSE IF id \in DOMAIN table
         THEN [new EXCEPT !.score_overall = table[id].score_overall,
                          !.score_tier = table[id].score_tier,
                          !.score_type = table[id].score_type]
         ELSE new]

\* One upsert of a data sync reaches the table
UpsertTank(attrs) ==
  /\ tanks' = upsertTankRow(tanks, attrs)
  /\ tanks' # tanks
  /\ UNCHANGED <<cache, proc, defaultWeights, req, res>>

----------------------------------------------------------------------------
(* Data sync: TankController.syncTanks over WargamingService.getAllTanks   *)
(* and TankModel.bulkUpsertTanks                                           *)

\* A vehicle list as a JSON array
JsonArray(rows) == <<"array", Len(rows), rows>>

IsArray(v) == Len(v) = 3 /\ v[1] = "array"

\* A whole number as the integer the tables of this model keep for an
\* attribute, any other number as it is
AsAttribute(x) == IF x[2] = 1 THEN x[1] ELSE x

\* mapTankType(wgType)
mapTankType(wgType) == IF wgType \in TankTypes THEN wgType ELSE MEDIUM

RECURSIVE SumGuns(_, _, _)
\* guns.reduce((sum, gun) => sum + (gun.<field> || 0), 0), from gun i on
SumGuns(guns, field, i) ==
  IF i > Len(guns) THEN 0 ELSE guns[i][field] + SumGuns(guns, field, i + 1)

RECURSIVE MaxPower(_, _)
\* Math.max(...engines.map(engine => engine.power)), from engine i on
MaxPower(engines, i) ==
  IF i = Len(engines) THEN engines[i]
  ELSE LET rest == MaxPower(engines, i + 1)
       IN  IF engines[i] > rest THEN engines[i] ELSE rest

\* Math.max(a, b) of two integers
IntMax(a, b) == IF a > b THEN a ELSE b

\* transformSingleTank(wgTank): a gun is <<damage[0], penetration[0], rate>>,
\* hull and turret are <<front, sides, rear>>
transformSingleTank(wgTank) ==
  LET n == Len(wgTank.guns)
      avg(field) == RDiv(N(SumGuns(wgTank.guns, field, 1)), N(n))
  IN  [id |-> wgTank.tank_id, tier |-> wgTank.tier,
       type |-> mapTankType(wgTank.type), health |-> wgTank.hp,
       armor_front |-> IntMax(wgTank.hull[1], wgTank.turret[1]),
       armor_side  |-> IntMax(wgTank.hull[2], wgTank.turret[2]),
       armor_rear  |-> IntMax(wgTank.hull[3], wgTank.turret[3]),
       gun_damage |-> IF n > 0 THEN AsAttribute(MathRound(avg(1))) ELSE 0,
       gun_penetration |-> IF n > 0 THEN AsAttribute(MathRound(avg(2))) ELSE 0,
       gun_rof |-> IF n > 0
                   THEN AsAttribute(RDiv(MathRound(RMul(avg(3), N(100))), N(100)))
                   ELSE 0,
       mobility_speed |-> wgTank.speed_forward,
       mobility_power |-> IF Len(wgTank.engines) > 0
                          THEN MaxPower(wgTank.engines, 1) ELSE 0]

\* transformWargamingData(data)
transformWargamingData(data) ==
  [i \in 1..Len(data) |-> transformSingleTank(data[i])]

\* POST /api/tanks/sync: syncTanks up to the cache read of getAllTanks
StartSyncTanks(p) ==
  /\ proc[p].pc = "idle"
  /\ Set(p, [IdleProc EXCEPT !.handler = "syncTanks", !.pc = "allTanksGet"])
  /\ UNCHANGED <<tanks, cache, defaultWeights, req, res>>

\* syncTanks once getAllTanks has returned tanks: the empty list is an error,
\* otherwise bulkUpsertTanks begins
afterGetAllTanks(pr, list) ==
  IF Len(list) = 0
  THEN [pr EXCEPT !.list = list, !.pc = "done",
                  !.response = [status |-> 500, updated |-> 0, errors |-> 0]]
  ELSE [pr EXCEPT !.list = list, !.idx = 1, !.insertedCount = 0, !.pc = "upsert"]

\* getAllTanks once CacheService.get has answered: a cached list is
\* returned, otherwise the request to the upstream API goes out
afterAllTanksGet(pr, cached) ==
  IF cached # Null /\ IsArray(cached)
  THEN afterGetAllTanks(pr, cached[3])
  ELSE [pr EXCEPT !.pc = "upstream"]

\* getAllTanks: CacheService.get('wargaming:all_tanks')
AllTanksGet(p) ==
  LET pr == proc[p]
  IN  /\ pr.pc = "allTanksGet"
      /\ Set(p, afterAllTanksGet(pr, CacheGet(cache, AllTanksKey)))
      /\ UNCHANGED <<tanks, cache, defaultWeights, req, res>>

\* getAllTanks: the read of the cached list fails
AllTanksGetCacheFails(p) ==
  LET pr == proc[p]
  IN  /\ pr.pc = "allTanksGet"
      /\ Set(p, cacheFault(pr, afterAllTanksGet(pr, cacheGetOnError)))
      /\ UNCHANGED <<tanks, cache, defaultWeights, req, res>>

\* getAllTanks: the upstream API answers with status 'ok'; the vehicles are
\* transformed and the list goes to the cache
UpstreamAnswers(p, data) ==
  LET pr == proc[p]
  IN  /\ pr.pc = "upstream"
      /\ Set(p, [pr EXCEPT !.list = transformWargamingData(data),
                           !.pc = "allTanksSet"])
      /\ UNCHANGED <<tanks, cache, defaultWeights, req, res>>

\* A faulty variant: after a failed request getAllTanks caches an empty list
UpstreamFailsCachingEmptyList(p) ==
  LET pr == proc[p]
  IN  /\ pr.pc = "upstream"
      /\ cache' = CacheSet(cache, AllTanksKey, JsonArray(<<>>))
      /\ Set(p, [pr EXCEPT !.pc = "done", !.upstreamFailed = TRUE,
                           !.response = [status |-> 500, updated |-> 0, errors |-> 0]])
      /\ UNCHANGED <<tanks, defaultWeights, req, res>>

\* getAllTanks: the request rejects (no answer, timeout, HTTP error) or the
\* answer's status is not 'ok'; getAllTanks throws and syncTanks answers 500
UpstreamFails(p) ==
  LET pr == proc[p]
  IN  /\ pr.pc = "upstream"
      /\ Set(p, [pr EXCEPT !.pc = "done", !.upstreamFailed = TRUE,
                           !.response = [status |-> 500, updated |-> 0, errors |-> 0]])
      /\ UNCHANGED <<tanks, cache, defaultWeights, req, res>>

\* getAllTanks: CacheService.set('wargaming:all_tanks', tanks, 21600), then
\* the list goes back to syncTanks
AllTanksSet(p) ==
  LET pr == proc[p]
  IN  /\ pr.pc = "allTanksSet"
      /\ cache' = CacheSet(cache, AllTanksKey, JsonArray(pr.list))
      /\ Set(p, afterGetAllTanks(pr, pr.list))
      /\ UNCHANGED <<tanks, defaultWeights, req, res>>

\* getAllTanks: the write of the list to the cache fails
AllTanksSetCacheFails(p) ==
  LET pr == proc[p]
  IN  /\ pr.pc = "allTanksSet"
      /\ Set(p, cacheFault(pr, afterGetAllTanks(pr, pr.list)))
      /\ UNCHANGED <<tanks, cache, defaultWeights, req, res>>

\* bulkUpsertTanks: await this.upsertTank(tank); insertedCount++.  After the
\* last vehicle COMMIT, and syncTanks goes on to invalidateCache
BulkUpsert(p) ==
  LET pr == proc[p]
  IN  /\ pr.pc = "upsert"
      /\ tanks' = upsertTankRow(tanks, pr.list[pr.idx])
      /\ Set(p, [pr EXCEPT !.insertedCount = pr.insertedCount + 1,
                           !.idx = pr.idx + 1,
                           !.pc = IF pr.idx = Len(pr.list)
                                  THEN "syncInvalidate" ELSE "upsert"])
      /\ UNCHANGED <<cache, defaultWeights, req, res>>

\* bulkUpsertTanks: an upsert rejects.  ROLLBACK runs on the client of the
\* transaction while the upserts went through the pool, so the rows written
\* so far stay; the error reaches the catch of syncTanks
BulkUpsertFails(p) ==
  LET pr == proc[p]
  IN  /\ pr.pc = "upsert"
      /\ Set(p, [pr EXCEPT !.pc = "done",
                           !.response = [status |-> 500, updated |-> 0, errors |-> 0]])
      /\ UNCHANGED <<tanks, cache, defaultWeights, req, res>>

\* keys of TankController.invalidateCache()
invalidateCacheKeys == {AllTanksKey, StatsKey}

\* syncTanks: invalidateCache(), then the count goes back to the client
SyncInvalidate(p) ==
  LET pr == proc[p]
  IN  /\ pr.pc = "syncInvalidate"
      /\ cache' = CacheDel(cache, invalidateCacheKeys)
      /\ Set(p, [pr EXCEPT !.pc = "done",
                           !.response = [status |-> 200, updated |-> pr.insertedCount,
                                         errors |-> 0]])
      /\ UNCHANGED <<tanks, defaultWeights, req, res>>

----------------------------------------------------------------------------

(* Read endpoints of TankController that answer from the cache *)

\* The cache key of getRankings: `${category}_${limit}_${tier || 'all'}_${type || 'all'}`
\* under getRankingCacheKey
rankingsCacheKey(category, limit, tier, type) ==
  getRankingCacheKey(<<category, limit, tier, type>>)

\* The rankings request of the model: /rankings/overall without limit, tier
\* or type, so limit 10 and 'all' twice
OverallRankingsKey == rankingsCacheKey("overall", 10, "all", "all")

\* GET /api/tanks/rankings/overall: getRankings up to its cache read
StartGetRankings(p) ==
  /\ proc[p].pc = "idle"
  /\ Set(p, [IdleProc EXCEPT !.handler = "getRankings", !.pc = "rankingsGet"])
  /\ UNCHANGED <<tanks, cache, defaultWeights, req, res>>

\* getRankings: the cached list is the answer, otherwise the query goes out
RankingsGet(p) ==
  LET pr     == proc[p]
      cached == CacheGet(cache, OverallRankingsKey)
  IN  /\ pr.pc = "rankingsGet"
      /\ Set(p, IF cached # Null /\ IsArray(cached)
                THEN [pr EXCEPT !.rows = cached[3], !.pc = "done",
                                !.response = [status |-> 200, updated |-> 0,
                                              errors |-> 0]]
                ELSE [pr EXCEPT !.pc = "rankingsFetch"])
      /\ UNCHANGED <<tanks, cache, defaultWeights, req, res>>

\* getRankings: tankModel.getTopTanks('overall', 10)
RankingsFetch(p) ==
  LET pr == proc[p]
  IN  /\ pr.pc = "rankingsFetch"
      /\ Set(p, [pr EXCEPT !.rows = getTanksByScore(tanks, 10), !.pc = "rankingsSet"])
      /\ UNCHANGED <<tanks, cache, defaultWeights, req, res>>

\* getRankings: CacheService.set(cacheKey, tanks, 600), then the answer
RankingsSet(p) ==
  LET pr == proc[p]
  IN  /\ pr.pc = "rankingsSet"
      /\ cache' = CacheSet(cache, OverallRankingsKey, JsonArray(pr.rows))
      /\ Set(p, [pr EXCEPT !.pc = "done",
                           !.response = [status |-> 200, updated |-> 0, errors |-> 0]])
      /\ UNCHANGED <<tanks, defaultWeights, req, res>>

\* A vehicle as a JSON object
JsonObject(row) == <<"object", DOMAIN row, row>>

IsObject(v) == Len(v) = 3 /\ v[1] = "object"

\* The state of a GET /api/tanks/:id request as getTankById begins
getTankByIdRequest(id) ==
  [IdleProc EXCEPT !.handler = "getTankById", !.tank = [id |-> id],
                   !.pc = "tankCacheGet"]

\* GET /api/tanks/:id: getTankById up to its cache read
StartGetTankById(p, id) ==
  /\ proc[p].pc = "idle"
  /\ Set(p, getTankByIdRequest(id))
  /\ UNCHANGED <<tanks, cache, defaultWeights, req, res>>

\* getTankById: the cached vehicle is the answer, otherwise the query goes out
TankCacheGet(p) ==
  LET pr     == proc[p]
      cached == CacheGet(cache, getTankCacheKey(pr.tank.id))
  IN  /\ pr.pc = "tankCacheGet"
      /\ Set(p, IF cached # Null /\ IsObject(cached)
                THEN [pr EXCEPT !.tank = cached[3], !.pc = "done",
                                !.response = [status |-> 200, updated |-> 0,
                                              errors |-> 0]]
                ELSE [pr EXCEPT !.pc = "tankFetch"])
      /\ UNCHANGED <<tanks, cache, defaultWeights, req, res>>

\* getTankById: tankModel.getTankById(tankId), 404 when there is no such row
TankFetch(p) ==
  LET pr == proc[p]
  IN  /\ pr.pc = "tankFetch"
      /\ Set(p, IF pr.tank.id \in DOMAIN tanks
                THEN [pr EXCEPT !.tank = tanks[pr.tank.id], !.pc = "tankCacheSet"]
                ELSE [pr EXCEPT !.pc = "done",
                                !.response = [status |-> 404, updated |-> 0,
                                              errors |-> 0]])
      /\ UNCHANGED <<tanks, cache, defaultWeights, req, res>>

\* getTankById: CacheService.set(cacheKey, tank, 3600), then the answer
TankCacheSet(p) ==
  LET pr == proc[p]
  IN  /\ pr.pc = "tankCacheSet"
      /\ cache' = CacheSet(cache, getTankCacheKey(pr.tank.id), JsonObject(pr.tank))
      /\ Set(p, [pr EXCEPT !.pc = "done",
                           !.response = [status |-> 200, updated |-> 0, errors |-> 0]])
      /\ UNCHANGED <<tanks, defaultWeights, req, res>>

----------------------------------------------------------------------------

\* The steps of updateTankScores, shared by both handlers
UpdateTankScoresStep(p) ==
  \/ TierGet(p)
  \/ TierFetch(p)
  \/ TierSet(p)
  \/ TypeGet(p)
  \/ TypeFetch(p)
  \/ TypeSet(p)
  \/ Persist(p)
  \/ Invalidate(p)

----------------------------------------------------------------------------
(* Fixtures *)

\* At most this many rows in the tanks table
MaxTanks == 3

LightTank ==
  [id |-> 0, tier |-> 10, type |-> LIGHT, health |-> 1000,
   armor_front |-> 30, armor_side |-> 20, armor_rear |-> 15,
   gun_damage |-> 150, gun_penetration |-> 120, gun_rof |-> 12,
   mobility_speed |-> 65, mobility_power |-> 500]

SweepProfiles == {ExampleTank, LightTank}

\* A complete override, as a client may send it with POST /recalculate
UniformWeights == [k \in validKeys |-> Q(1, 6)]

SweepOverrides == {NoCustomWeights, [given |-> TRUE, w |-> UniformWeights]}

EmptyCache == [k \in {} |-> Null]

\* The cache once GET /stats and a data sync have filled the aggregate entries
AggregatesCached ==
  CacheSet(CacheSet(EmptyCache, StatsKey, N(1)), AllTanksKey, JsonArray(<<>>))

Main == "p1"

----------------------------------------------------------------------------
(* Specifications *)

\* The weight configuration alone: one PUT /weights request on a WeightSet
WeightsInit ==
  /\ defaultWeights \in StartingWeightSets
  /\ req = NoBody
  /\ res = NoResponse
  /\ tanks = <<>>
  /\ cache = EmptyCache
  /\ proc = [p \in Procs |-> IdleProc]

WeightsNext == res = NoResponse /\ \E body \in Bodies : updateWeights(body)

SpecWeights == WeightsInit /\ [][WeightsNext]_vars

\* One bulk recalculation over a table that does not change otherwise
SweepInit ==
  /\ defaultWeights = InitialDefaultWeights
  /\ req = NoBody
  /\ res = NoResponse
  /\ \E n \in 0..MaxTanks : \E f \in [1..n -> SweepProfiles] :
       tanks = [i \in 1..n |-> Row(i, f[i])]
  /\ cache = AggregatesCached
  /\ proc = [p \in Procs |-> IdleProc]

SweepNext ==
  \/ \E cw \in SweepOverrides : StartRecalculateScores(Main, cw)
  \/ FetchPage(Main)
  \/ FetchPageFails(Main)
  \/ UpdateTankScoresStep(Main)
  \/ StorageFails(Main)
  \/ InvalidateAll(Main)

SpecSweep == SweepInit /\ [][SweepNext]_vars

\* One POST /tank/:id request on a drawn vehicle, cache and WeightSet, while a
\* data sync may move the vehicle to another tier
GunLevels == {<<0, 0, 0>>, <<1000, 20, 400>>}

ArmorLevels == {<<0, 0, 0>>, <<400, 400, 400>>}

HealthLevels == {0, 1800, 3000}

MobilityLevels == {<<0, 0>>, <<45, 650>>, <<100, 1500>>}

ScoreTypes == {HEAVY, SPG}

\* The vehicles drawn: every attribute zero, typical, or above its ceiling
ScoreTanks ==
  {[id |-> 1, tier |-> 10, type |-> ty, health |-> h,
    armor_front |-> a[1], armor_side |-> a[2], armor_rear |-> a[3],
    gun_damage |-> g[1], gun_rof |-> g[2], gun_penetration |-> g[3],
    mobility_speed |-> m[1], mobility_power |-> m[2]] :
     ty \in ScoreTypes, h \in HealthLevels, a \in ArmorLevels,
     g \in GunLevels, m \in MobilityLevels}

\* Overall scores a row may hold from an earlier recalculation
StoredScores == {Zero, N(50)}

\* Averages the cache may hold from an earlier calculation
CachedAverages == {Zero, N(60)}

\* The cache holds no average, or one of the averages of the vehicle's cohorts
ScoreCaches(tank) ==
  {EmptyCache}
    \cup {CacheSet(EmptyCache, tierAverageKey(tank.tier), v) : v \in CachedAverages}
    \cup {CacheSet(EmptyCache, typeAverageKey(tank.type), v) : v \in CachedAverages}

ScoreWeightSets ==
  {InitialDefaultWeights,
   updateScoringWeights(InitialDefaultWeights, FullRequest({"damage"}))}

ScoreInit ==
  /\ defaultWeights \in ScoreWeightSets
  /\ req = NoBody
  /\ res = NoResponse
  /\ \E t \in ScoreTanks : \E sc \in StoredScores :
       /\ tanks = [i \in {1} |-> [Row(1, t) EXCEPT !.score_overall = sc]]
       /\ cache \in ScoreCaches(t)
  /\ proc = [p \in Procs |-> IdleProc]

\* The sync moves vehicle 1 to tier 9
Retiered(row) ==
  [id |-> row.id, tier |-> 9, type |-> row.type, health |-> row.health,
   armor_front |-> row.armor_front, armor_side |-> row.armor_side,
   armor_rear |-> row.armor_rear, gun_damage |-> row.gun_damage,
   gun_penetration |-> row.gun_penetration, gun_rof |-> row.gun_rof,
   mobility_speed |-> row.mobility_speed, mobility_power |-> row.mobility_power]

ScoreNext ==
  \/ \E id \in {1, 2} : StartRecalculateTankScore(Main, id, NoCustomWeights)
  \/ GetTank(Main)
  \/ GetTankFails(Main)
  \/ UpdateTankScoresStep(Main)
  \/ StorageFails(Main)
  \/ UpsertTank(Retiered(tanks[1]))

SpecScore == ScoreInit /\ [][ScoreNext]_vars

\* The sweep's handler is between two of its steps
Running(p) == proc[p].pc \notin {"idle", "done"}

\* The sweep's handler is inside updateTankScores
Scoring(p) == Running(p) /\ proc[p].pc \notin {"fetchPage", "invalidateAll"}

\* The steps recalculateAllScores takes itself
DriverStep ==
  \/ FetchPage(Main)
  \/ FetchPageFails(Main)
  \/ InvalidateAll(Main)

\* The steps it takes inside updateTankScores
VehicleStep ==
  \/ UpdateTankScoresStep(Main)
  \/ StorageFails(Main)

\* The steps of the sweep's handler
SweepStep == DriverStep \/ VehicleStep

\* Node resumes a handler whose awaited call has settled, so a handler that
\* is between two steps takes its next one.  The second conjunct is
\* WF_vars(VehicleStep) with ENABLED <<VehicleStep>>_vars written out: such a
\* step is possible exactly while the handler is inside updateTankScores, and
\* every one of them moves the handler.
SweepFairness ==
  /\ WF_vars(DriverStep)
  /\ []<>(~Scoring(Main)) \/ []<><<VehicleStep>>_vars

\* The same sweep, whose handler keeps running
SpecSweepFair == SpecSweep /\ SweepFairness

\* Two POST /tank/:id requests in flight at once over a table of two vehicles
\* of one tier
RaceTanks == <<ExampleTank, LightTank>>

RaceInit ==
  /\ defaultWeights = InitialDefaultWeights
  /\ req = NoBody
  /\ res = NoResponse
  /\ \E sc \in [1..2 -> StoredScores] :
       tanks = [i \in 1..2 |-> [Row(i, RaceTanks[i]) EXCEPT !.score_overall = sc[i]]]
  /\ cache = EmptyCache
  /\ proc = [p \in Procs |-> IdleProc]

RaceNext ==
  \E p \in Procs :
    \/ \E id \in 1..2 : StartRecalculateTankScore(p, id, NoCustomWeights)
    \/ GetTank(p)
    \/ GetTankFails(p)
    \/ UpdateTankScoresStep(p)
    \/ StorageFails(p)

SpecRace == RaceInit /\ [][RaceNext]_vars

\* Scoring calls of every kind, with and without an override, while an
\* administrator changes the weights
ReaderBodies ==
  {[isObject |-> TRUE, entries |-> <<<<"damage", Q(1, 2)>>>>],
   [isObject |-> TRUE, entries |-> <<<<"damage", Q(0, 1)>>, <<"armor", Q(1, 1)>>>>],
   [isObject |-> TRUE, entries |-> <<<<"foo", Q(1, 2)>>>>]}

ReadersInit ==
  /\ defaultWeights = InitialDefaultWeights
  /\ req = NoBody
  /\ res = NoResponse
  /\ tanks = [i \in 1..2 |-> Row(i, RaceTanks[i])]
  /\ cache = EmptyCache
  /\ proc = [p \in Procs |-> IdleProc]

ReadersNext ==
  \/ res = NoResponse /\ \E body \in ReaderBodies : updateWeights(body)
  \/ \E cw \in SweepOverrides : StartRecalculateTankScore(Main, 1, cw)
  \/ \E cw \in SweepOverrides : StartRecalculateScores(Main, cw)
  \/ \E p \in Procs : \E id \in {1, 3} : \E cw \in SweepOverrides :
       StartSimulateScore(p, id, cw)
  \/ \E p \in Procs : SimulateScore(p)
  \/ GetTank(Main)
  \/ FetchPage(Main)
  \/ UpdateTankScoresStep(Main)
  \/ InvalidateAll(Main)

SpecReaders == ReadersInit /\ [][ReadersNext]_vars

\* One score report over a table that does not change
MaxReportRows == 4

\* Overall scores the rows hold: never set, or set by a recalculation
ReportScores == {Null, NaN, N(45), Q(1799, 20), N(95)}

ReportInit ==
  /\ defaultWeights = InitialDefaultWeights
  /\ req = NoBody
  /\ res = NoResponse
  /\ \E n \in 0..MaxReportRows : \E sc \in [1..n -> ReportScores] :
       tanks = [i \in 1..n |-> [Row(i, LightTank) EXCEPT !.score_overall = sc[i]]]
  /\ cache = EmptyCache
  /\ proc = [p \in Procs |-> IdleProc]

ReportNext ==
  \/ StartScoreReport(Main)
  \/ ReportStats(Main)
  \/ ReportTop(Main)
  \/ ReportAll(Main)

SpecReport == ReportInit /\ [][ReportNext]_vars

\* One POST /tank/:id request while the cache may fail at any operation
FaultCaches ==
  {EmptyCache,
   CacheSet(CacheSet(EmptyCache, tierAverageKey(10), N(60)),
            typeAverageKey(HEAVY), N(60))}

CacheFaultsInit ==
  /\ defaultWeights = InitialDefaultWeights
  /\ req = NoBody
  /\ res = NoResponse
  /\ \E sc \in [1..2 -> StoredScores] :
       tanks = [i \in 1..2 |-> [Row(i, RaceTanks[i]) EXCEPT !.score_overall = sc[i]]]
  /\ cache \in FaultCaches
  /\ proc = [p \in Procs |-> IdleProc]

CacheFaultsNext ==
  \/ \E id \in 1..2 : StartRecalculateTankScore(Main, id, NoCustomWeights)
  \/ GetTank(Main)
  \/ UpdateTankScoresStep(Main)
  \/ CacheFaultStep(Main)
  \/ StorageFails(Main)

SpecCacheFaults == CacheFaultsInit /\ [][CacheFaultsNext]_vars

\* Two data syncs in flight at once over a table of one vehicle
WgHeavy ==
  [tank_id |-> 1, tier |-> 10, type |-> "heavyTank", hp |-> 2000,
   hull |-> <<250, 150, 100>>, turret |-> <<300, 120, 90>>,
   guns |-> <<<<400, 200, 6>>, <<441, 221, 5>>>>,
   engines |-> <<600, 650>>, speed_forward |-> 45]

WgBoat ==
  [tank_id |-> 2, tier |-> 5, type |-> "boat", hp |-> 500,
   hull |-> <<20, 10, 10>>, turret |-> <<0, 0, 0>>,
   guns |-> <<>>, engines |-> <<>>, speed_forward |-> 60]

\* The data of the upstream answers with status 'ok'
UpstreamData == {<<>>, <<WgHeavy>>, <<WgHeavy, WgBoat>>}

\* The table before the syncs: vehicle 1 as of an older upstream answer
SyncStoredTanks == [i \in {1} |-> Row(1, ExampleTank)]

SyncCaches ==
  {EmptyCache,
   CacheSet(EmptyCache, AllTanksKey, JsonArray(<<LightTank>>)),
   CacheSet(EmptyCache, StatsKey, N(1))}

SyncInit ==
  /\ defaultWeights = InitialDefaultWeights
  /\ req = NoBody
  /\ res = NoResponse
  /\ tanks = SyncStoredTanks
  /\ cache \in SyncCaches
  /\ proc = [p \in Procs |-> IdleProc]

SyncNext ==
  \E p \in Procs :
    \/ StartSyncTanks(p)
    \/ AllTanksGet(p)
    \/ AllTanksGetCacheFails(p)
    \/ \E data \in UpstreamData : UpstreamAnswers(p, data)
    \/ UpstreamFails(p)
    \/ AllTanksSet(p)
    \/ AllTanksSetCacheFails(p)
    \/ BulkUpsert(p)
    \/ BulkUpsertFails(p)
    \/ SyncInvalidate(p)

SpecSync == SyncInit /\ [][SyncNext]_vars

\* One request of each scoring endpoint that takes an override, with the
\* "weights" a client may send: none, all six keys, or one key only
PartialOverride == [given |-> TRUE, w |-> [k \in {"damage"} |-> Q(1, 1)]]

RequestOverrides == SweepOverrides \cup {PartialOverride}

OverridesInit ==
  /\ defaultWeights = InitialDefaultWeights
  /\ req = NoBody
  /\ res = NoResponse
  /\ tanks = [i \in 1..2 |-> Row(i, RaceTanks[i])]
  /\ cache = EmptyCache
  /\ proc = [p \in Procs |-> IdleProc]

OverridesNext ==
  \/ \E cw \in RequestOverrides : StartRecalculateScores(Main, cw)
  \/ \E id \in 1..3 : \E cw \in RequestOverrides :
       StartRecalculateTankScore(Main, id, cw)
  \/ \E id \in 1..3 : \E cw \in RequestOverrides : StartSimulateScore(Main, id, cw)
  \/ FetchPage(Main)
  \/ GetTank(Main)
  \/ UpdateTankScoresStep(Main)
  \/ SimulateScore(Main)
  \/ InvalidateAll(Main)

SpecOverrides == OverridesInit /\ [][OverridesNext]_vars

\* Two bulk recalculations one after the other, with the same override, over
\* a table nothing else writes to
TwoSweepsInit ==
  /\ defaultWeights = InitialDefaultWeights
  /\ req = NoBody
  /\ res = NoResponse
  /\ \E sc \in [1..2 -> StoredScores] :
       tanks = [i \in 1..2 |-> [Row(i, RaceTanks[i]) EXCEPT !.score_overall = sc[i]]]
  /\ cache = EmptyCache
  /\ proc = [p \in Procs |-> IdleProc]

TwoSweepsNext ==
  \/ \E cw \in SweepOverrides : StartRecalculateScores("p1", cw)
  \/ /\ proc["p1"].pc = "done"
     /\ StartRecalculateScores("p2", proc["p1"].customWeights)
  \/ \E p \in Procs :
       \/ FetchPage(p)
       \/ UpdateTankScoresStep(p)
       \/ InvalidateAll(p)

SpecTwoSweeps == TwoSweepsInit /\ [][TwoSweepsNext]_vars

\* One POST /tank/:id request, then a rankings request, the cache holding
\* nothing or the rankings an earlier request has put there
RankingsTables ==
  {[i \in 1..2 |-> [Row(i, RaceTanks[i]) EXCEPT !.score_overall = sc[i]]] :
     sc \in [1..2 -> StoredScores]}

RankingsCaches(table) ==
  {EmptyCache,
   CacheSet(EmptyCache, OverallRankingsKey, JsonArray(getTanksByScore(table, 10)))}

RankingsInit ==
  /\ defaultWeights = InitialDefaultWeights
  /\ req = NoBody
  /\ res = NoResponse
  /\ tanks \in RankingsTables
  /\ cache \in RankingsCaches(tanks)
  /\ proc = [p \in Procs |-> IdleProc]

RankingsNext ==
  \/ \E id \in 1..2 : StartRecalculateTankScore("p1", id, NoCustomWeights)
  \/ GetTank("p1")
  \/ UpdateTankScoresStep("p1")
  \/ proc["p1"].pc = "done" /\ StartGetRankings("p2")
  \/ RankingsGet("p2")
  \/ RankingsFetch("p2")
  \/ RankingsSet("p2")

SpecRankings == RankingsInit /\ [][RankingsNext]_vars

\* One POST /tank/:id request and GET /api/tanks/:id requests: one at any
\* time, one more once the update has answered
TankReadsInit ==
  /\ defaultWeights = InitialDefaultWeights
  /\ req = NoBody
  /\ res = NoResponse
  /\ tanks \in RankingsTables
  /\ cache = EmptyCache
  /\ proc = [p \in Procs |-> IdleProc]

\* The client that has the answer of its update asks for the vehicle
StartGetTankByIdAfterUpdate(p) ==
  /\ proc[p].pc = "done"
  /\ proc[p].handler = "recalculateTankScore"
  /\ proc[p].persisted # <<>>
  /\ Set(p, getTankByIdRequest(proc[p].tank.id))
  /\ UNCHANGED <<tanks, cache, defaultWeights, req, res>>

TankReadsNext ==
  \/ \E id \in 1..3 : StartRecalculateTankScore("p1", id, NoCustomWeights)
  \/ GetTank("p1")
  \/ UpdateTankScoresStep("p1")
  \/ StartGetTankByIdAfterUpdate("p1")
  \/ \E id \in 1..3 : StartGetTankById("p2", id)
  \/ \E p \in Procs : TankCacheGet(p) \/ TankFetch(p) \/ TankCacheSet(p)

SpecTankReads == TankReadsInit /\ [][TankReadsNext]_vars

\* One bulk recalculation while a data sync inserts vehicles: the table holds
\* vehicles of StartIds when the sweep starts, and bulkUpsertTanks inserts
\* those of NewIds, before, between and after them in id order, one
\* statement at a time while the sweep runs
StartIds == {2, 4, 6}

NewIds == {1, 3, 5}

SweepSyncInit ==
  /\ defaultWeights = InitialDefaultWeights
  /\ req = NoBody
  /\ res = NoResponse
  /\ \E S \in SUBSET StartIds : tanks = [i \in S |-> Row(i, LightTank)]
  /\ cache = EmptyCache
  /\ proc = [p \in Procs |-> IdleProc]

\* bulkUpsertTanks: upsertTank for a vehicle the table does not hold
InsertTank(id) ==
  /\ id \notin DOMAIN tanks
  /\ UpsertTank([LightTank EXCEPT !.id = id])

SweepSyncNext ==
  \/ StartRecalculateScores(Main, NoCustomWeights)
  \/ FetchPage(Main)
  \/ UpdateTankScoresStep(Main)
  \/ InvalidateAll(Main)
  \/ Running(Main) /\ \E id \in NewIds : InsertTank(id)

SpecSweepSync == SweepSyncInit /\ [][SweepSyncNext]_vars

\* The same, the sweep's handler running on
SpecSweepSyncFair == SpecSweepSync /\ SweepFairness

----------------------------------------------------------------------------
(* Properties *)

Range(seq) == {seq[i] : i \in 1..Len(seq)}

\* This step is the PUT /weights handler answering a request
Handled == res = NoResponse /\ res' # NoResponse

HasUnknownKey(body) ==
  body.isObject /\ \E i \in 1..Len(body.entries) : body.entries[i][1] \notin validKeys

HasOutOfRangeValue(body) ==
  /\ body.isObject
  /\ \E i \in 1..Len(body.entries) :
       /\ IsNumber(body.entries[i][2])
       /\ RLt(body.entries[i][2], Zero) \/ RLt(Q(1, 1), body.entries[i][2])

\* The first entry of the request is acceptable and would change the weight
FirstEntryWouldApply ==
  /\ Len(req.entries) = 2
  /\ req.entries[1][1] \in validKeys
  /\ req.entries[1][2] \in {Q(0, 1), Q(1, 2), Q(1, 1)}
  /\ defaultWeights[req.entries[1][1]] # req.entries[1][2]

\* C1: after any sequence of valid weight updates the six weights of the
\* process-wide WeightSet sum to 1.
C1_WeightsSumToOne == SumOver(defaultWeights, validKeys) = Q(1, 1)

\* C2: an update whose mapping has a key outside the six recognized keys is
\* rejected with an error and leaves the process-wide WeightSet as it was.
C2_UnknownKeyRejected ==
  [][(Handled /\ HasUnknownKey(req')) =>
       /\ res'.status = 400
       /\ res'.error \in {"InvalidWeightKey", "InvalidWeightValue"}
       /\ defaultWeights' = defaultWeights]_vars

C2_Witness ==
  /\ res.status = 400
  /\ res.error = "InvalidWeightKey"
  /\ FirstEntryWouldApply
  /\ req.entries[2][1] = "foo"

\* C3: an update whose mapping has a value outside [0,1] is rejected and none
\* of its entries is applied, the valid entries listed before it included.
C3_OutOfRangeRejectedWhole ==
  [][(Handled /\ HasOutOfRangeValue(req')) =>
       /\ res'.status = 400
       /\ defaultWeights' = defaultWeights]_vars

C3_Witness ==
  /\ res.status = 400
  /\ res.error = "InvalidWeightValue"
  /\ FirstEntryWouldApply
  /\ req.entries[2] = <<res.key, Q(3, 2)>>

IsSweep(p) == proc[p].handler = "recalculateScores"

\* The sweep of p has returned its summary
SummaryReturned(p) ==
  IsSweep(p) /\ proc[p].pc = "done" /\ proc[p].response.status = 200

\* C4: over N vehicles of which exactly k fail during persistence the sweep
\* returns {updated: N-k, errors: k} and persists exactly N-k vehicles.
C4_SummaryCountsFailures ==
  \A p \in Procs :
    (/\ SummaryReturned(p)
     /\ \A i \in 1..Len(proc[p].failed) : proc[p].failed[i][2] = "persist")
    => LET n == Cardinality(DOMAIN tanks)
           k == Len(proc[p].failed)
       IN  /\ proc[p].response.updated = n - k
           /\ proc[p].response.errors = k
           /\ Len(proc[p].persisted) = n - k

\* C5: a failure while processing one vehicle never aborts the sweep: unless a
\* page fetch fails, the sweep ends by returning a summary, and by then every
\* vehicle of the table has been attempted, also those after a failing one.
C5_VehicleFailureNeverAborts ==
  \A p \in Procs :
    (IsSweep(p) /\ proc[p].pc = "done" /\ ~proc[p].fetchFailed)
    => /\ proc[p].response.status = 200
       /\ DOMAIN tanks \subseteq Range(proc[p].attempted)

C5_Witness ==
  /\ SummaryReturned(Main)
  /\ Len(proc[Main].failed) > 0
  /\ proc[Main].failed[1][1] = 1
  /\ Len(proc[Main].attempted) = 3

\* Page i of the sweep held the rows of ranks (i-1)*PageLimit+1 .. i*PageLimit
PageSizeHeld(i) ==
  LET rest == Cardinality(DOMAIN tanks) - (i - 1) * PageLimit
  IN  IF rest <= 0 THEN 0 ELSE Min2(PageLimit, rest)

\* The sweep asked for pages 1, 2, 3, ... and went on exactly while they held rows
PagesInOrder(p) ==
  LET pages == proc[p].pages
  IN  /\ \A i \in 1..Len(pages) :
           /\ pages[i][1] = i
           /\ pages[i][2] = PageSizeHeld(i)
           /\ i < Len(pages) => pages[i][2] > 0
      /\ SummaryReturned(p) => Len(pages) > 0 /\ pages[Len(pages)][2] = 0

\* C6: over a finite table that does not change, a started sweep reaches Done
\* (short of a failing page fetch): it fetches pages 1, 2, 3, ... of fixed
\* size in id order and stops at the first empty page.
C6_SweepTerminates ==
  /\ (proc[Main].pc # "idle") ~> (SummaryReturned(Main) \/ proc[Main].fetchFailed)
  /\ [](IsSweep(Main) => PagesInOrder(Main))

C6_Witness ==
  /\ SummaryReturned(Main)
  /\ Len(proc[Main].pages) = 3

\* C7: over a table that does not change, the sweep processes every vehicle
\* exactly once, whatever the table's size relative to the page size.
C7_EveryVehicleOnce ==
  \A p \in Procs :
    IsSweep(p) =>
      /\ \A i, j \in 1..Len(proc[p].attempted) :
           i # j => proc[p].attempted[i] # proc[p].attempted[j]
      /\ (proc[p].pc = "done" /\ ~proc[p].fetchFailed)
         => proc[p].attempted = SortedIds(DOMAIN tanks)

C7_Witness ==
  /\ SummaryReturned(Main)
  /\ Len(proc[Main].pages) = 3
  /\ Len(proc[Main].attempted) = 3
  /\ proc[Main].failed = <<>>

\* p has computed the tier-relative score of its vehicle
HasTierScore(p) == proc[p].pc \in {"typeFetch", "typeSet", "persist", "invalidate"}

\* p has computed the type-relative score of its vehicle
HasTypeScore(p) == proc[p].pc = "invalidate"

\* C8: whatever the storage and the cache hold, the tier-relative and
\* type-relative scores are numbers in [0,100], never NaN or infinite.
C8_RelativeScoresInRange ==
  \A p \in Procs :
    /\ HasTierScore(p) => InScoreRange(proc[p].tierScore)
    /\ HasTypeScore(p) => InScoreRange(proc[p].typeScore)

\* min(100, max(0, overall)): the relative score when the divisor is 75
ScoreAgainstFallback(p) ==
  MathMin(N(100), MathMax(N(0), calculateOverallScore(proc[p].tank, defaultWeights)))

\* C9: when the cohort average is 0 the relative score is computed with 75 as
\* the divisor, so it equals min(100, max(0, overall)).
C9_ZeroAverageUsesFallback ==
  \A p \in Procs :
    /\ (HasTierScore(p) /\ proc[p].tierAverage = Zero)
       => proc[p].tierScore = ScoreAgainstFallback(p)
    /\ (HasTypeScore(p) /\ proc[p].typeAverage = Zero)
       => proc[p].typeScore = ScoreAgainstFallback(p)

\* C10: each of the six per-dimension scorers returns a value in [0,100] for
\* every vehicle with non-negative attributes, all-zero vehicles and vehicles
\* above the reference ceilings included.
C10_SubscoresInRange ==
  \A p \in Procs :
    proc[p].attempted # <<>> =>
      \A k \in validKeys : InScoreRange(proc[p].subscores[k])

\* No request is being handled
Quiescent == \A p \in Procs : proc[p].pc \in {"idle", "done"}

\* The average of a cohort as a read of the cache would return it, had it
\* been computed and cached now
FreshAverage(filter) ==
  JsonRoundTrip(cohortAverage(getTanks(tanks, filter, 1, cohortLimit)))

\* C11: updateTankScores invalidates tier_average_<tier> and
\* type_average_<type> after it has changed a stored overall score, so that
\* once all scoring calls have completed, failed ones included, no cached
\* cohort average is one computed from the scores before a change.
C11_NoStaleAverageAtRest ==
  Quiescent =>
    \A id \in DOMAIN tanks :
      /\ tierAverageKey(tanks[id].tier) \in DOMAIN cache
         => cache[tierAverageKey(tanks[id].tier)] = FreshAverage(<<"tier", tanks[id].tier>>)
      /\ typeAverageKey(tanks[id].type) \in DOMAIN cache
         => cache[typeAverageKey(tanks[id].type)] = FreshAverage(<<"type", tanks[id].type>>)

\* The WeightSet an accepted request leaves: the entries merged into old,
\* every weight divided by the total unless the total is 1
RenormalisedMerge(old, entries) ==
  LET merged == [k \in validKeys |->
                   IF k \in RequestKeys(entries) THEN RequestValue(entries, k)
                   ELSE old[k]]
      total  == SumOver(merged, validKeys)
  IN  IF total = Q(1, 1) THEN merged
      ELSE [k \in validKeys |-> RDiv(merged[k], total)]

\* C12: a scoring call that runs while the weights are updated never reads a
\* partially updated WeightSet: each read of this.defaultWeights returns the
\* complete set from before the update or the complete merged and
\* renormalised set from after it.
C12_ReadsSeeWholeWeightSets ==
  \A p \in Procs : \A i \in 1..Len(proc[p].weightsRead) :
    \/ proc[p].weightsRead[i] = InitialDefaultWeights
    \/ /\ res.status = 200
       /\ proc[p].weightsRead[i] = RenormalisedMerge(InitialDefaultWeights, req.entries)

C12_Witness ==
  /\ proc[Main].handler = "recalculateTankScore"
  /\ Len(proc[Main].weightsRead) = 3
  /\ proc[Main].weightsRead[1] = InitialDefaultWeights
  /\ proc[Main].weightsRead[3] # InitialDefaultWeights

\* p takes a step of a scoring call that carries an override
OverrideStep(p) == proc'[p] # proc[p] /\ proc'[p].customWeights.given

\* C13: an override passed to calculateOverallScore, updateTankScores,
\* recalculateAllScores or the simulate endpoint is never persisted: no step
\* of such a call changes the process-wide WeightSet.
C13_OverrideNeverPersisted ==
  [][(\E p \in Procs : OverrideStep(p)) => defaultWeights' = defaultWeights]_vars

C13_Witness ==
  /\ SummaryReturned(Main)
  /\ proc[Main].customWeights.given
  /\ Len(proc[Main].persisted) = 2
  /\ proc["p2"].handler = "simulateScore"
  /\ proc["p2"].customWeights.given
  /\ proc["p2"].response.status = 200
  /\ defaultWeights = InitialDefaultWeights

\* p has answered a simulation that carried explicit weights
Simulated(p) ==
  /\ proc[p].handler = "simulateScore"
  /\ proc[p].response.status = 200
  /\ proc[p].customWeights.given

\* The attributes a score is computed from
Attributes(tank) ==
  <<tank.tier, tank.type, tank.health, tank.armor_front, tank.armor_side,
    tank.armor_rear, tank.gun_damage, tank.gun_penetration, tank.gun_rof,
    tank.mobility_speed, tank.mobility_power>>

\* C18: two calls of calculateOverallScore with the same vehicle attributes
\* and the same explicit weights return the same score, whatever happened
\* between them.
C18_SameInputsSameScore ==
  \A p, q \in Procs :
    (/\ Simulated(p) /\ Simulated(q)
     /\ Attributes(proc[p].tank) = Attributes(proc[q].tank)
     /\ proc[p].customWeights = proc[q].customWeights)
    => proc[p].simulatedScore = proc[q].simulatedScore

C18_Witness ==
  /\ Simulated("p1") /\ Simulated("p2")
  /\ Attributes(proc["p1"].tank) = Attributes(proc["p2"].tank)
  /\ proc["p1"].currentScore # proc["p2"].currentScore

RECURSIVE SumCounts(_, _)
\* The sum of the counts of a distribution over the ranges of rest
SumCounts(dist, rest) ==
  IF rest = {} THEN 0
  ELSE LET range == CHOOSE x \in rest : TRUE
       IN  dist[range] + SumCounts(dist, rest \ {range})

ReportReturned(p) ==
  proc[p].handler = "getScoreReport" /\ proc[p].response.status = 200

\* C14: the counts of the five score ranges of the report sum to the number
\* of vehicles in the table, which is the total the report gives, whatever
\* the table and its stored overall scores, unset ones included.
C14_DistributionSumsToTotal ==
  \A p \in Procs :
    ReportReturned(p) =>
      LET dist == proc[p].report.scoreDistribution
      IN  /\ SumCounts(dist, DOMAIN dist) = proc[p].report.totalTanks
          /\ proc[p].report.totalTanks = Cardinality(DOMAIN tanks)

\* C15: when fetching a page from storage fails during the sweep, the sweep
\* fails outright: the error reaches the caller, which answers 500, and no
\* {updated, errors} summary is returned.
C15_PageFetchFailureIsFatal ==
  \A p \in Procs :
    (IsSweep(p) /\ proc[p].fetchFailed)
    => /\ proc[p].pc = "done"
       /\ proc[p].response.status = 500
       /\ ~SummaryReturned(p)

C15_Witness ==
  /\ IsSweep(Main)
  /\ proc[Main].fetchFailed
  /\ Len(proc[Main].pages) = 1
  /\ Len(proc[Main].persisted) = 2

\* The call of p has the tier average (the type average) of its vehicle and
\* has not yet written to storage
HoldsTierAverage(p) ==
  proc[p].pc \in {"tierSet", "typeGet", "typeFetch", "typeSet", "persist"}

HoldsTypeAverage(p) == proc[p].pc \in {"typeSet", "persist"}

\* C16: a failing cache get, set or del inside calculateTierScore,
\* calculateTypeScore or updateTankScores is not fatal: after a failed read
\* the cohort average is the one computed from storage, and a call whose
\* storage calls all succeed still persists the three scores and answers 200.
C16_CacheFaultsAreNotFatal ==
  \A p \in Procs :
    LET pr == proc[p]
    IN  /\ ("tierGet" \in Range(pr.cacheFaults) /\ HoldsTierAverage(p))
           => pr.tierAverage
                = cohortAverage(getTanks(tanks, <<"tier", pr.tank.tier>>, 1, cohortLimit))
        /\ ("typeGet" \in Range(pr.cacheFaults) /\ HoldsTypeAverage(p))
           => pr.typeAverage
                = cohortAverage(getTanks(tanks, <<"type", pr.tank.type>>, 1, cohortLimit))
        /\ (pr.cacheFaults # <<>> /\ pr.failed = <<>> /\ pr.pc = "done")
           => /\ pr.response.status = 200
              /\ pr.persisted = <<pr.tank.id>>
              /\ tanks[pr.tank.id].score_overall = Decimal3(pr.overallScore)
              /\ tanks[pr.tank.id].score_tier = Decimal3(pr.tierScore)
              /\ tanks[pr.tank.id].score_type = Decimal3(pr.typeScore)

C16_Witness ==
  /\ proc[Main].pc = "done"
  /\ proc[Main].response.status = 200
  /\ proc[Main].cacheFaults = <<"tierGet", "tierSet", "typeGet", "typeSet", "invalidate">>
  /\ proc[Main].persisted = <<1>>
  /\ tierAverageKey(10) \in DOMAIN cache

\* This step is p's request to the upstream API failing
UpstreamFailsFor(p) == ~proc[p].upstreamFailed /\ proc'[p].upstreamFailed

\* This step is taken by the sync of p, which has not got a vehicle list yet
BeforeTheList(p) ==
  /\ proc[p].handler = "syncTanks"
  /\ proc[p].pc \in {"allTanksGet", "upstream"}
  /\ proc'[p] # proc[p]

\* C17: a sync whose request to the upstream API is rejected or answered with
\* a status other than ok answers its caller once, with an error, and commits
\* nothing: none of its steps writes a row to storage or a list under
\* 'wargaming:all_tanks'.
C17_UpstreamFailureCommitsNothing ==
  [][\A p \in Procs :
       /\ UpstreamFailsFor(p)
          => /\ proc'[p].pc = "done"
             /\ proc'[p].response.status = 500
             /\ proc[p].insertedCount = 0
       /\ BeforeTheList(p) => tanks' = tanks /\ cache' = cache
       /\ proc[p].upstreamFailed => proc'[p] = proc[p]]_vars

\* The only sync so far has failed at the upstream API: table and cache are
\* as they were
C17_Witness ==
  /\ proc[Main].upstreamFailed
  /\ proc[Main].pc = "done"
  /\ proc["p2"].pc = "idle"
  /\ tanks = SyncStoredTanks
  /\ AllTanksKey \notin DOMAIN cache

\* The row of p's vehicle holds the three scores p has computed
ScoresStored(p) ==
  LET pr == proc[p]
  IN  /\ pr.tank.id \in DOMAIN tanks
      /\ tanks[pr.tank.id].score_overall = Decimal3(pr.overallScore)
      /\ tanks[pr.tank.id].score_tier = Decimal3(pr.tierScore)
      /\ tanks[pr.tank.id].score_type = Decimal3(pr.typeScore)

\* This step is the UPDATE of p's vehicle failing
PersistFailsFor(p) ==
  proc[p].pc = "persist" /\ proc'[p].failed # proc[p].failed

\* This step removes a per-vehicle or per-cohort entry from the cache
DropsScoreEntry ==
  \E k \in DOMAIN cache \ DOMAIN cache' : k \notin invalidateAllScoreCacheKeys

\* C19: updateTankScores persists the three scores first and invalidates the
\* per-vehicle and per-cohort cache entries only after the write has
\* completed; when the write fails nothing is invalidated and the failure is
\* logged for that vehicle.
C19_PersistThenInvalidate ==
  [][\A p \in Procs :
       /\ (DropsScoreEntry /\ proc'[p] # proc[p])
          => /\ proc[p].pc = "invalidate"
             /\ ScoresStored(p)
             /\ proc[p].persisted[Len(proc[p].persisted)] = proc[p].tank.id
       /\ PersistFailsFor(p)
          => /\ cache' = cache
             /\ tanks' = tanks
             /\ proc'[p].pc # "invalidate"
             /\ proc'[p].failed = Append(proc[p].failed, <<proc[p].tank.id, "persist">>)]_vars

\* The write of vehicle 1 failed and its tier average is still cached; the
\* sweep has written vehicle 2 and is about to invalidate
C19_Witness ==
  /\ proc[Main].failed = <<<<1, "persist">>>>
  /\ proc[Main].persisted = <<2>>
  /\ proc[Main].pc = "invalidate"
  /\ tierAverageKey(10) \in DOMAIN cache

\* The sweep of p is under way: its loop over the pages has not ended
InLoop(p) == IsSweep(p) /\ proc[p].pc \notin {"invalidateAll", "done"}

\* This step removes an aggregate entry from the cache
DropsAggregateEntry ==
  \E k \in DOMAIN cache \ DOMAIN cache' : k \in invalidateAllScoreCacheKeys

\* C20: 'tanks:stats' and 'wargaming:all_tanks' are invalidated once per
\* sweep, after the last page has been processed and before the summary is
\* returned, for every sweep that returns a summary, with or without
\* per-vehicle errors.
C20_AggregatesInvalidatedOncePerSweep ==
  /\ [](\A p \in Procs :
          /\ SummaryReturned(p) => DOMAIN cache \cap invalidateAllScoreCacheKeys = {}
          /\ InLoop(p) => invalidateAllScoreCacheKeys \subseteq DOMAIN cache)
  /\ [][DropsAggregateEntry
         => /\ proc[Main].pc = "invalidateAll"
            /\ proc[Main].pages[Len(proc[Main].pages)][2] = 0
            /\ SummaryReturned(Main)'
            /\ cache' = CacheDel(cache, invalidateAllScoreCacheKeys)]_vars

\* A sweep in which a vehicle failed has returned its summary, and the
\* aggregate entries the cache held at its start are gone
C20_Witness ==
  /\ SummaryReturned(Main)
  /\ Len(proc[Main].failed) = 2
  /\ Len(proc[Main].pages) = 3
  /\ StatsKey \notin DOMAIN cache
  /\ AllTanksKey \notin DOMAIN cache

\* The weight the request gives key k, or the one the WeightSet old held
MergedWeight(old, entries, k) ==
  IF \E i \in 1..Len(entries) : entries[i][1] = k
  THEN entries[CHOOSE i \in 1..Len(entries) : entries[i][1] = k][2]
  ELSE old[k]

\* The sum of the six merged weights
MergedSum(old, entries) ==
  LET m(k) == MergedWeight(old, entries, k)
  IN  RAdd(m("damage"), RAdd(m("winRate"), RAdd(m("survival"),
        RAdd(m("armor"), RAdd(m("mobility"), m("penetration"))))))

\* Two partial updates a WeightSet may receive one after the other
HalfDamage == <<<<"damage", Q(1, 2)>>>>

HalfArmor == <<<<"armor", Q(1, 2)>>>>

\* C21: an accepted update leaves every one of the six weights at
\* merged_i / sum(merged), the weights the request did not name included.
C21_EveryWeightDividedBySum ==
  [][(Handled /\ res'.status = 200) =>
       /\ DOMAIN defaultWeights' = validKeys
       /\ \A k \in validKeys :
            defaultWeights'[k]
              = RDiv(MergedWeight(defaultWeights, req'.entries, k),
                     MergedSum(defaultWeights, req'.entries))]_vars

\* damage was set to 1/2 on the initial weights: it holds 2/5, armor (not
\* named) went from 15/100 to 12/100, and two further partial updates give
\* different WeightSets in their two orders
C21_Witness ==
  /\ res.status = 200
  /\ req.entries = HalfDamage
  /\ defaultWeights["damage"] = Q(2, 5)
  /\ defaultWeights["armor"] = Q(12, 100)
  /\ updateScoringWeights(updateScoringWeights(defaultWeights, HalfDamage), HalfArmor)
       # updateScoringWeights(updateScoringWeights(defaultWeights, HalfArmor), HalfDamage)

\* The mean of the overall scores of the rows, an unset score counting as 0
MeanOverall(rows) == RDiv(SumScores(rows, 1), N(Len(rows)))

\* C22: the cohort average is the cached value when the cache holds one;
\* otherwise the mean of the overall scores of all vehicles of the cohort
\* (unset counted as 0), which is then cached; otherwise 75 when the cohort
\* is empty.  The relative score is min(100, max(0, overall / average * 75)).
C22_CohortAverage ==
  \A p \in Procs :
    LET pr   == proc[p]
        tier == getTanks(tanks, <<"tier", pr.tank.tier>>, 1, Cardinality(DOMAIN tanks))
    IN  /\ pr.pc = "tierFetch" => tierAverageKey(pr.tank.tier) \notin DOMAIN cache
        /\ pr.pc = "typeFetch" => typeAverageKey(pr.tank.type) \notin DOMAIN cache
        /\ pr.pc = "tierSet" => pr.tierAverage = MeanOverall(tier)
        /\ (pr.pc = "typeGet" /\ tierAverageKey(pr.tank.tier) \notin DOMAIN cache)
           => tier = <<>> /\ pr.tierAverage = N(75)
        /\ HasTierScore(p)
           => pr.tierScore
                = MathMin(N(100), MathMax(N(0),
                    RMul(RDiv(calculateOverallScore(pr.tank, defaultWeights),
                              pr.tierAverage), N(75))))

\* C23: the three scores one updateTankScores call persists are consistent:
\* the tier-relative and the type-relative score are derived from the overall
\* score persisted with them, with an override and when the weights are
\* updated between the steps of the call.
C23_RelativeScoresFromPersistedOverall ==
  \A p \in Procs :
    LET pr == proc[p]
    IN  (pr.pc = "invalidate" /\ pr.tank.id \in DOMAIN tanks)
        => LET row == tanks[pr.tank.id]
           IN  /\ row.score_overall = Decimal3(pr.overallScore)
               /\ row.score_tier = Decimal3(relativeScore(pr.overallScore, pr.tierAverage))
               /\ row.score_type = Decimal3(relativeScore(pr.overallScore, pr.typeAverage))

\* The call of p has computed a score with the override of its request
ScoredWithOverride(p) ==
  /\ proc[p].customWeights.given
  /\ proc[p].overallScore # Null \/ proc[p].simulatedScore # Null

\* C24: the override the recalc-all, recalc-one and simulate endpoints hand
\* to calculateOverallScore is a complete WeightSet of the six keys, so no
\* score is computed from a missing weight.
C24_OverrideIsComplete ==
  \A p \in Procs :
    ScoredWithOverride(p)
    => /\ DOMAIN proc[p].customWeights.w = validKeys
       /\ proc[p].overallScore # Null => ~IsNaN(proc[p].overallScore)
       /\ proc[p].simulatedScore # Null => ~IsNaN(proc[p].simulatedScore)

\* The sync of p has ended with an upsert of its batch failing
BulkUpsertFailed(p) ==
  /\ proc[p].handler = "syncTanks"
  /\ proc[p].pc = "done"
  /\ proc[p].response.status = 500
  /\ ~proc[p].upstreamFailed
  /\ Len(proc[p].list) > 0

\* C25: bulkUpsertTanks is all-or-nothing: when the upsert of a vehicle of
\* the batch fails, the vehicles upserted before it are undone by the
\* rollback, so the table is as it was before the batch.
C25_BulkUpsertAllOrNothing ==
  \A p \in Procs :
    (BulkUpsertFailed(p) /\ \A q \in Procs \ {p} : proc[q].pc = "idle")
    => tanks = SyncStoredTanks

\* C26: two sweeps in succession over an unchanged collection, with the same
\* weights and no failure, persist the same three scores for every vehicle,
\* whatever the scores stored before the first sweep.
C26_SecondSweepPersistsTheSame ==
  (SummaryReturned("p1") /\ SummaryReturned("p2"))
  => proc["p2"].written = proc["p1"].written

\* C27: a rankings request that starts after updateTankScores has persisted
\* new scores answers with the vehicles as storage holds them: the
\* invalidation has deleted the ranking entries the endpoint had cached.
C27_RankingsAfterUpdateAreCurrent ==
  (/\ proc["p1"].persisted # <<>>
   /\ proc["p2"].handler = "getRankings"
   /\ proc["p2"].pc = "done")
  => \A i \in 1..Len(proc["p2"].rows) :
       proc["p2"].rows[i] = tanks[proc["p2"].rows[i].id]

\* C28: whatever GET /api/tanks/:id requests run beside an updateTankScores
\* call for the same vehicle, a GET for it that starts after the update has
\* completed answers with the vehicle as storage holds it.
C28_GetByIdAfterUpdateIsCurrent ==
  (/\ proc["p1"].handler = "getTankById"
   /\ proc["p1"].pc = "done"
   /\ proc["p1"].response.status = 200)
  => proc["p1"].tank = tanks[proc["p1"].tank.id]

\* C29: when a sync inserts vehicles and removes none while a sweep runs, the
\* sweep processes every vehicle the table held when it started at least
\* once, and it ends once the insertions have stopped.
C29_InsertionsSkipNoVehicle ==
  /\ (proc[Main].pc # "idle") ~> SummaryReturned(Main)
  /\ [](SummaryReturned(Main)
        => (DOMAIN tanks \cap StartIds) \subseteq Range(proc[Main].attempted))

\* The sweep has ended after all insertions, one of which moved a vehicle it
\* had processed onto a later page, so that it processed it again
C29_Witness ==
  /\ SummaryReturned(Main)
  /\ DOMAIN tanks = StartIds \cup NewIds
  /\ StartIds \subseteq Range(proc[Main].attempted)
  /\ \E i, j \in 1..Len(proc[Main].attempted) :
       i < j /\ proc[Main].attempted[i] = proc[Main].attempted[j]

\* Six non-negative weights that sum to 1
IsWeightSet(w) ==
  /\ DOMAIN w = validKeys
  /\ \A k \in validKeys : IsFinite(w[k]) /\ RLe(Zero, w[k])
  /\ WeightTotal(w) = N(1)

\* No raw attribute of the vehicle is negative
NonNegativeAttributes(tank) ==
  /\ tank.health >= 0
  /\ tank.armor_front >= 0 /\ tank.armor_side >= 0 /\ tank.armor_rear >= 0
  /\ tank.gun_damage >= 0 /\ tank.gun_rof >= 0 /\ tank.gun_penetration >= 0
  /\ tank.mobility_speed >= 0 /\ tank.mobility_power >= 0

\* C30: with a WeightSet of six non-negative weights summing to 1 and a
\* vehicle of non-negative attributes, the overall score that
\* calculateOverallScore returns, and that updateTankScores persists, lies
\* in [0,100].
C30_OverallScoreInRange ==
  \A p \in Procs :
    (/\ proc[p].overallScore # Null
     /\ IsWeightSet(effectiveWeights(proc[p].customWeights, defaultWeights))
     /\ NonNegativeAttributes(proc[p].tank))
    => /\ InScoreRange(proc[p].overallScore)
       /\ \A i \in 1..Len(proc[p].written) :
            InScoreRange(proc[p].written[i][2])

====
